---- MODULE Spec2Model ----
(***************************************************************************)
(* Action parser and action executor of the Curvable AI assistant:        *)
(* AIService.suggestCodeActions (aiService.ts, lines 588-697), the file    *)
(* operations of AIService (aiService.ts, lines 102-324), and the          *)
(* commands of the extension that call them (index.js).                    *)
(*                                                                         *)
(* A JavaScript string is modelled as a sequence of one-character strings, *)
(* so that the regular expressions, split('\n') and trim() of the source   *)
(* are computed character by character.                                    *)
(***************************************************************************)
EXTENDS Integers, Sequences, FiniteSets, TLC

VARIABLES response, lines, i, actions, currentContent, currentFilePath, pc, result,
          workspaceFolders, disk, script, made, log,
          command, provider, notices, posted, events,
          currentIntent, intentHistory, globalState

\* The state of a parse.
parserVars == <<response, lines, i, actions, currentContent, currentFilePath, pc, result>>

\* The state of the executor: the open workspace folders, the file system,
\* the calls to make, the number of calls made and what each call did.
execVars == <<workspaceFolders, disk, script, made, log>>

\* The state of the extension: the command that runs, what the model
\* provider answers, the messages shown to the user, the messages posted
\* to the webview, and the starts and ends of the operations.
handlerVars == <<command, provider, notices, posted, events>>

\* The state of the IntentManager: the current intent, the history of
\* intents, newest first, and what is saved in the global state of the
\* extension.
intentVars == <<currentIntent, intentHistory, globalState>>

vars == <<parserVars, execVars, handlerVars, intentVars>>

\* No command of the extension runs.
HandlerIdle ==
  /\ command = "none"
  /\ provider = "none"
  /\ notices = <<>>
  /\ posted = <<>>
  /\ events = <<>>

\* The IntentManager as its constructor leaves it when nothing is saved:
\* no current intent (null is 0) and no history.
IntentIdle ==
  /\ currentIntent = 0
  /\ intentHistory = <<>>
  /\ globalState = <<>>

\* No file operation is called during a parse.
ExecIdle ==
  /\ workspaceFolders = <<>>
  /\ disk = <<>>
  /\ script = <<>>
  /\ made = 0
  /\ log = <<>>

\* No parse runs while the file operations are called.
ParserIdle ==
  /\ response = <<>>
  /\ lines = <<>>
  /\ i = 1
  /\ actions = <<>>
  /\ currentContent = <<>>
  /\ currentFilePath = <<>>
  /\ pc = "idle"
  /\ result = <<>>

(***************************************************************************)
(* Bounds of the model.                                                    *)
(***************************************************************************)
MaxSegments == 3

(***************************************************************************)
(* Small helpers on finite sets of integers and on sequences.              *)
(***************************************************************************)
Min(S) == CHOOSE x \in S : \A y \in S : x <= y

Max(S) == CHOOSE x \in S : \A y \in S : y <= x

\* Array.prototype.reverse
Reverse(s) == [k \in 1..Len(s) |-> s[Len(s) + 1 - k]]

(***************************************************************************)
(* Regular expressions.  Every pattern of the parser is a concatenation of *)
(* literals and of capture groups of the form ([^c]+).                     *)
(***************************************************************************)
Lit(chars) == [kind |-> "lit", chars |-> chars, excl |-> ""]

Group(c) == [kind |-> "group", chars |-> <<>>, excl |-> c]

\* The value of String.prototype.match when the pattern does not match.
null == [ok |-> FALSE, groups |-> <<>>]

\* Length of the longest run of characters other than c starting at pos.
RunLen(line, pos, c) ==
  LET stops == {k \in pos..Len(line) : line[k] = c}
  IN  IF stops = {} THEN Len(line) + 1 - pos ELSE Min(stops) - pos

\* Match of the pattern pat against line, anchored at position pos.  A group
\* is greedy: it takes the longest run for which the rest of the pattern
\* still matches (backtracking).
RECURSIVE MatchFrom(_, _, _)
MatchFrom(line, pos, pat) ==
  IF pat = <<>> THEN [ok |-> TRUE, groups |-> <<>>]
  ELSE LET e == Head(pat) IN
    IF e.kind = "lit"
    THEN IF /\ pos + Len(e.chars) - 1 <= Len(line)
            /\ SubSeq(line, pos, pos + Len(e.chars) - 1) = e.chars
         THEN MatchFrom(line, pos + Len(e.chars), Tail(pat))
         ELSE null
    ELSE LET fits == {n \in 1..RunLen(line, pos, e.excl) :
                        MatchFrom(line, pos + n, Tail(pat)).ok}
         IN  IF fits = {} THEN null
             ELSE LET n == Max(fits)
                      rest == MatchFrom(line, pos + n, Tail(pat))
                  IN  [ok |-> TRUE,
                       groups |-> <<SubSeq(line, pos, pos + n - 1)>> \o rest.groups]

\* Mutant of Match: the pattern is anchored at the start of the line.
Match_Anchored(line, pat) == MatchFrom(line, 1, pat)

\* String.prototype.match with a non-global pattern: the leftmost match.
\* groups[k] is capture group k of the source's match array.
Match(line, pat) ==
  LET starts == {s \in 1..Len(line) : MatchFrom(line, s, pat).ok}
  IN  IF starts = {} THEN null ELSE MatchFrom(line, Min(starts), pat)

\* /\[T:([^:]+):([^\]]+)\]/
HeaderRE(open) == <<Lit(open), Group(":"), Lit(<<":">>), Group("]"), Lit(<<"]">>)>>

\* /\[T:([^:]+):([^:]+):([^\]]+)\]/
TwoPathRE(open) ==
  <<Lit(open), Group(":"), Lit(<<":">>), Group(":"), Lit(<<":">>), Group("]"), Lit(<<"]">>)>>

OpenCreateFile == <<"[", "C", "R", "E", "A", "T", "E", "_", "F", "I", "L", "E", ":">>

OpenCreateDirectory ==
  <<"[", "C", "R", "E", "A", "T", "E", "_", "D", "I", "R", "E", "C", "T", "O", "R", "Y", ":">>

OpenCreateFolder == <<"[", "C", "R", "E", "A", "T", "E", "_", "F", "O", "L", "D", "E", "R", ":">>

OpenDeleteFile == <<"[", "D", "E", "L", "E", "T", "E", "_", "F", "I", "L", "E", ":">>

OpenDeleteDirectory ==
  <<"[", "D", "E", "L", "E", "T", "E", "_", "D", "I", "R", "E", "C", "T", "O", "R", "Y", ":">>

OpenMoveFile == <<"[", "M", "O", "V", "E", "_", "F", "I", "L", "E", ":">>

OpenCopyFile == <<"[", "C", "O", "P", "Y", "_", "F", "I", "L", "E", ":">>

OpenEditFile == <<"[", "E", "D", "I", "T", "_", "F", "I", "L", "E", ":">>

OpenFileContent == <<"[", "F", "I", "L", "E", "_", "C", "O", "N", "T", "E", "N", "T", ":">>

CloseFileContent ==
  <<"[", "/", "F", "I", "L", "E", "_", "C", "O", "N", "T", "E", "N", "T", "]">>

createFileMatch(line) == Match(line, HeaderRE(OpenCreateFile))

createDirMatch(line) == Match(line, HeaderRE(OpenCreateDirectory))

\* Mutant of createFolderMatch: the old format is not supported.
createFolderMatch_Unsupported(line) == null

createFolderMatch(line) == Match(line, HeaderRE(OpenCreateFolder))

\* Mutant of deleteFileMatch: the DELETE_FILE marker is not supported.
deleteFileMatch_Unsupported(line) == null

deleteFileMatch(line) == Match(line, HeaderRE(OpenDeleteFile))

deleteDirMatch(line) == Match(line, HeaderRE(OpenDeleteDirectory))

moveFileMatch(line) == Match(line, TwoPathRE(OpenMoveFile))

copyFileMatch(line) == Match(line, TwoPathRE(OpenCopyFile))

editFileMatch(line) == Match(line, HeaderRE(OpenEditFile))

\* /\[FILE_CONTENT:([^\]]+)\]/
fileContentStart(line) == Match(line, <<Lit(OpenFileContent), Group("]"), Lit(<<"]">>)>>)

\* /\[\/FILE_CONTENT\]/
fileContentEnd(line) == Match(line, <<Lit(CloseFileContent)>>)

(***************************************************************************)
(* String.prototype.split('\n') and String.prototype.trim.                *)
(***************************************************************************)
RECURSIVE Split(_)
Split(s) ==
  LET nl == {k \in 1..Len(s) : s[k] = "\n"}
  IN  IF nl = {} THEN <<s>>
      ELSE <<SubSeq(s, 1, Min(nl) - 1)>> \o Split(SubSeq(s, Min(nl) + 1, Len(s)))

WhiteSpace == {" ", "\t", "\n", "\r", "\f"}

Trim(s) ==
  LET ink == {k \in 1..Len(s) : s[k] \notin WhiteSpace}
  IN  IF ink = {} THEN <<>> ELSE SubSeq(s, Min(ink), Max(ink))

(***************************************************************************)
(* The actions pushed by the parser (interface CodeAction).  An absent     *)
(* optional field (content, sourcePath, destinationPath) is a field the    *)
(* record does not have.                                                   *)
(***************************************************************************)
PathAction(type, m) == [type |-> type, path |-> m.groups[1], description |-> m.groups[2]]

TwoPathAction(type, m) ==
  [type |-> type, sourcePath |-> m.groups[1], destinationPath |-> m.groups[2],
   path |-> m.groups[1], description |-> m.groups[3]]

\* The chain with the EDIT_FILE pattern tried first instead of last.
Pushed_EditFileFirst(line) ==
  IF editFileMatch(line).ok THEN <<PathAction("EDIT_FILE", editFileMatch(line))>>
  ELSE IF createFileMatch(line).ok
    THEN <<PathAction("CREATE_FILE", createFileMatch(line))>>
  ELSE IF createDirMatch(line).ok
    THEN <<PathAction("CREATE_DIRECTORY", createDirMatch(line))>>
  ELSE IF createFolderMatch(line).ok
    THEN <<PathAction("CREATE_DIRECTORY", createFolderMatch(line))>>
  ELSE IF deleteFileMatch(line).ok THEN <<PathAction("DELETE_FILE", deleteFileMatch(line))>>
  ELSE IF deleteDirMatch(line).ok
    THEN <<PathAction("DELETE_DIRECTORY", deleteDirMatch(line))>>
  ELSE IF moveFileMatch(line).ok THEN <<TwoPathAction("MOVE_FILE", moveFileMatch(line))>>
  ELSE IF copyFileMatch(line).ok THEN <<TwoPathAction("COPY_FILE", copyFileMatch(line))>>
  ELSE <<>>

\* The action pushed for a line, by the if / else-if chain of the loop body;
\* <<>> when no header pattern matches the line.
Pushed(line) ==
  IF createFileMatch(line).ok THEN <<PathAction("CREATE_FILE", createFileMatch(line))>>
  ELSE IF createDirMatch(line).ok
    THEN <<PathAction("CREATE_DIRECTORY", createDirMatch(line))>>
  ELSE IF createFolderMatch(line).ok
    THEN <<PathAction("CREATE_DIRECTORY", createFolderMatch(line))>>
  ELSE IF deleteFileMatch(line).ok THEN <<PathAction("DELETE_FILE", deleteFileMatch(line))>>
  ELSE IF deleteDirMatch(line).ok
    THEN <<PathAction("DELETE_DIRECTORY", deleteDirMatch(line))>>
  ELSE IF moveFileMatch(line).ok THEN <<TwoPathAction("MOVE_FILE", moveFileMatch(line))>>
  ELSE IF copyFileMatch(line).ok THEN <<TwoPathAction("COPY_FILE", copyFileMatch(line))>>
  ELSE IF editFileMatch(line).ok THEN <<PathAction("EDIT_FILE", editFileMatch(line))>>
  ELSE <<>>

\* Mutant of lastCreateFileAction: reverse() is missing, the first match is found.
lastCreateFileAction_First(acts, p) ==
  LET found == {k \in 1..Len(acts) : acts[k].type = "CREATE_FILE" /\ acts[k].path = p}
  IN  IF found = {} THEN 0 ELSE Min(found)

\* Mutant of lastCreateFileAction: the filter on the type is missing.
lastCreateFileAction_AnyType(acts, p) ==
  LET found == {k \in 1..Len(acts) : acts[k].path = p}
  IN  IF found = {} THEN 0 ELSE Max(found)

\* Mutant of lastCreateFileAction: the filter lets the EDIT_FILE actions
\* through as well.
lastCreateFileAction_OrEditFile(acts, p) ==
  LET found == {k \in 1..Len(acts) :
                  acts[k].type \in {"CREATE_FILE", "EDIT_FILE"} /\ acts[k].path = p}
  IN  IF found = {} THEN 0 ELSE Max(found)

\* actions.filter(a => a.type === 'CREATE_FILE').reverse().find(a => a.path === p):
\* the index in acts of the object found, 0 for undefined.  The objects of the
\* filtered array are the objects of acts, so they are named by their index.
lastCreateFileAction(acts, p) ==
  LET filtered == SelectSeq([k \in 1..Len(acts) |-> k],
                            LAMBDA k : acts[k].type = "CREATE_FILE")
      reversed == Reverse(filtered)
      found == {k \in 1..Len(reversed) : acts[reversed[k]].path = p}
  IN  IF found = {} THEN 0 ELSE reversed[Min(found)]

\* Mutant of SetContent: the action found is replaced by a new object that
\* has the type, the path and the content only.
SetContent_Replaces(acts, k, content) ==
  [acts EXCEPT ![k] = [type |-> acts[k].type, path |-> acts[k].path, content |-> content]]

\* lastCreateFileAction.content = currentContent.trim()
SetContent(acts, k, content) ==
  [acts EXCEPT ![k] = [f \in DOMAIN acts[k] \cup {"content"} |->
                         IF f = "content" THEN content ELSE acts[k][f]]]

(***************************************************************************)
(* Input texts.  A text is a sequence of lines joined by "\n"; the lines   *)
(* are built from the marker language of the prompt (lines 556-583).       *)
(***************************************************************************)
RECURSIVE Join(_)
Join(ls) ==
  IF ls = <<>> THEN <<>>
  ELSE IF Len(ls) = 1 THEN ls[1]
  ELSE ls[1] \o <<"\n">> \o Join(Tail(ls))

RECURSIVE Flatten(_)
Flatten(ss) == IF ss = <<>> THEN <<>> ELSE Head(ss) \o Flatten(Tail(ss))

Hdr(open, p, d) == open \o p \o <<":">> \o d \o <<"]">>

Hdr2(open, s, t, d) == open \o s \o <<":">> \o t \o <<":">> \o d \o <<"]">>

OpenLine(p) == OpenFileContent \o p \o <<"]">>

PathA == <<"a">>

PathB == <<"b">>

DescD == <<"d">>

\* Groups of consecutive lines out of which the multi-line texts are built.
Segments ==
  { <<Hdr(OpenCreateFile, PathA, DescD)>>,
    <<Hdr(OpenCreateFile, PathB, DescD)>>,
    <<Hdr(OpenEditFile, PathA, DescD)>>,
    <<Hdr2(OpenMoveFile, PathA, PathB, DescD)>>,
    <<OpenLine(PathA), <<" ", "x", " ">>, CloseFileContent>>,
    <<OpenLine(PathA), <<"x">>, <<" ", " ">>, <<"\t", "y">>, CloseFileContent>>,
    <<OpenLine(PathA), Hdr(OpenDeleteFile, PathB, DescD), <<"x">>, CloseFileContent>>,
    <<OpenLine(PathB), <<"y">>>>,
    <<CloseFileContent>>,
    <<<<"h", "i">>>> }

SegmentTexts ==
  {Flatten(ss) : ss \in UNION {[1..n -> Segments] : n \in 0..MaxSegments}}

HeaderOpens ==
  {OpenCreateFile, OpenCreateDirectory, OpenCreateFolder, OpenDeleteFile,
   OpenDeleteDirectory, OpenMoveFile, OpenCopyFile, OpenEditFile}

\* What follows the opening "[T:" of a marker: well-formed and malformed fields.
Bodies ==
  { <<"a", ":", "d", "]">>,
    <<"/", "a", ":", "d", "]">>,
    <<"a", ":", "d", ":", "e", "]">>,
    <<"a", ":", "/", "b", ":", "e", "]">>,
    <<"a", "]">>,
    <<"a", ":", "d">>,
    <<":", "d", "]">>,
    <<"a", ":", "]">>,
    <<"a", "]", "b", ":", "d", "]">>,
    <<"a", ":">> \o OpenCreateFile \o <<"b", ":", "d", "]">>,
    <<"a", ":">> \o OpenEditFile \o <<"b", ":", "d", "]">> }

Prefixes == { <<>>, <<"-", " ">> }

Suffixes ==
  { <<>>, <<" ", "x">>, <<" ", "c", ":", "d", "]">>,
    <<" ">> \o Hdr(OpenCreateFile, PathB, DescD) }

MarkerLines ==
  {pre \o open \o body \o post :
     pre \in Prefixes, open \in HeaderOpens, body \in Bodies, post \in Suffixes}

OtherLines ==
  { <<>>, <<" ", " ">>, <<"x">>, <<" ", "x", "\t">>,
    OpenLine(PathA) \o <<" ", "x">>,
    <<"x", " ">> \o CloseFileContent \o <<" ", "y">>,
    OpenFileContent \o <<"]">>,
    OpenFileContent \o <<"a">>,
    OpenLine(PathA) \o CloseFileContent,
    CloseFileContent \o <<" ">> \o Hdr(OpenCreateFile, PathA, DescD) }

\* One line alone, and the same line inside an open content block.
LineTexts ==
  UNION { { <<l>>,
            <<Hdr(OpenCreateFile, PathA, DescD), OpenLine(PathA), l, CloseFileContent>> } :
          l \in MarkerLines \cup OtherLines }

\* The scenario of the specification, with varying text around the marker.
ScenarioPath == <<"s", "r", "c", "/", "x", ".", "j", "s">>

ScenarioDescription == <<"a", "d", "d", " ", "h", "e", "l", "p", "e", "r">>

ScenarioContent == <<"c", "o", "n", "s", "o", "l", "e", ".", "l", "o", "g", "(", "1", ")", ";">>

ScenarioPrefixes == { <<>>, <<"S", "u", "r", "e", "!", " ">>, <<"-", " ">>, <<"]", " ">> }

ScenarioSuffixes == { <<>>, <<" ", "o", "k">>, <<" ", "[", "x", "]">>, <<":">> }

Scenario(pre, post) ==
  << pre \o Hdr(OpenCreateFile, ScenarioPath, ScenarioDescription) \o post,
     OpenLine(ScenarioPath),
     ScenarioContent,
     CloseFileContent,
     <<"D", "o", "n", "e", ".">> >>

ScenarioTexts == {Scenario(pre, post) : pre \in ScenarioPrefixes, post \in ScenarioSuffixes}

Texts == {Join(ls) : ls \in SegmentTexts \cup LineTexts \cup ScenarioTexts}

(***************************************************************************)
(* The parser as a state machine: the response is split into lines, the    *)
(* loop body runs once per line, and the action list is returned.          *)
(***************************************************************************)
Init ==
  /\ response \in Texts
  /\ lines = <<>>
  /\ i = 1
  /\ actions = <<>>
  /\ currentContent = <<>>
  /\ currentFilePath = <<>>
  /\ pc = "start"
  /\ result = <<>>
  /\ ExecIdle
  /\ HandlerIdle
  /\ IntentIdle

\* Mutant of SplitResponse: the path and the buffer of the content block are
\* fields of the service, which a call finds as the call before left them.
SplitResponse_SharedBlock ==
  /\ pc = "start"
  /\ lines' = Split(response)
  /\ i' = 1
  /\ actions' = <<>>
  /\ UNCHANGED <<currentContent, currentFilePath>>
  /\ pc' = "loop"
  /\ UNCHANGED <<response, result>>
  /\ UNCHANGED execVars
  /\ UNCHANGED handlerVars
  /\ UNCHANGED intentVars

\* Lines 588-591: const actions = []; const lines = response.split('\n'); ...
SplitResponse ==
  /\ pc = "start"
  /\ lines' = Split(response)
  /\ i' = 1
  /\ actions' = <<>>
  /\ currentContent' = <<>>
  /\ currentFilePath' = <<>>
  /\ pc' = "loop"
  /\ UNCHANGED <<response, result>>
  /\ UNCHANGED execVars
  /\ UNCHANGED handlerVars
  /\ UNCHANGED intentVars

\* Mutant of HasNextLine: the iteration stops one line early.
HasNextLine_OffByOne == i < Len(lines)

\* for (const line of lines): the iterator has a next line.
HasNextLine == i <= Len(lines)

\* Mutant of Push: unshift instead of push.
Push_Unshift(acts, new) == new \o acts

\* actions.push(...)
Push(acts, new) == acts \o new

\* Mutant of Buffering: the test of currentFilePath is missing.
Buffering_NoPathTest(path, line) == Trim(line) # <<>>

\* else if (currentFilePath && line.trim())
Buffering(path, line) == path # <<>> /\ Trim(line) # <<>>

\* Mutant of Appended: the newline is not added.
Appended_NoNewline(content, line) == content \o line

\* currentContent += line + '\n'
Appended(content, line) == content \o line \o <<"\n">>

\* Mutant of ParseLine: an opening marker sets the path of the block and
\* keeps what the buffer holds.
ParseLine_KeepsBuffer ==
  /\ pc = "loop"
  /\ HasNextLine
  /\ LET line == lines[i] IN
       IF Pushed(line) # <<>>
       THEN /\ actions' = Push(actions, Pushed(line))
            /\ UNCHANGED <<currentContent, currentFilePath>>
       ELSE IF fileContentStart(line).ok
       THEN /\ currentFilePath' = fileContentStart(line).groups[1]
            /\ currentContent' = currentContent
            /\ UNCHANGED actions
       ELSE IF fileContentEnd(line).ok
       THEN /\ actions' = IF lastCreateFileAction(actions, currentFilePath) # 0
                          THEN SetContent(actions,
                                          lastCreateFileAction(actions, currentFilePath),
                                          Trim(currentContent))
                          ELSE actions
            /\ currentFilePath' = <<>>
            /\ currentContent' = <<>>
       ELSE IF Buffering(currentFilePath, line)
       THEN /\ currentContent' = Appended(currentContent, line)
            /\ UNCHANGED <<actions, currentFilePath>>
       ELSE UNCHANGED <<actions, currentContent, currentFilePath>>
  /\ i' = i + 1
  /\ UNCHANGED <<response, lines, pc, result>>
  /\ UNCHANGED execVars
  /\ UNCHANGED handlerVars
  /\ UNCHANGED intentVars

\* Lines 593-690: one iteration of for (const line of lines).
ParseLine ==
  /\ pc = "loop"
  /\ HasNextLine
  /\ LET line == lines[i] IN
       IF Pushed(line) # <<>>
       THEN /\ actions' = Push(actions, Pushed(line))
            /\ UNCHANGED <<currentContent, currentFilePath>>
       ELSE IF fileContentStart(line).ok
       THEN /\ currentFilePath' = fileContentStart(line).groups[1]
            /\ currentContent' = <<>>
            /\ UNCHANGED actions
       ELSE IF fileContentEnd(line).ok
       THEN /\ actions' = IF lastCreateFileAction(actions, currentFilePath) # 0
                          THEN SetContent(actions,
                                          lastCreateFileAction(actions, currentFilePath),
                                          Trim(currentContent))
                          ELSE actions
            /\ currentFilePath' = <<>>
            /\ currentContent' = <<>>
       ELSE IF Buffering(currentFilePath, line)
       THEN /\ currentContent' = Appended(currentContent, line)
            /\ UNCHANGED <<actions, currentFilePath>>
       ELSE UNCHANGED <<actions, currentContent, currentFilePath>>
  /\ i' = i + 1
  /\ UNCHANGED <<response, lines, pc, result>>
  /\ UNCHANGED execVars
  /\ UNCHANGED handlerVars
  /\ UNCHANGED intentVars

\* Lines 692-693: return actions.
Return ==
  /\ pc = "loop"
  /\ ~HasNextLine
  /\ result' = actions
  /\ pc' = "done"
  /\ UNCHANGED <<response, lines, i, actions, currentContent, currentFilePath>>
  /\ UNCHANGED execVars
  /\ UNCHANGED handlerVars
  /\ UNCHANGED intentVars

Next == SplitResponse \/ ParseLine \/ Return

Spec == Init /\ [][Next]_vars

(***************************************************************************)
(* Vocabulary of the properties.                                           *)
(***************************************************************************)
\* The line the next iteration of the loop processes.
AtLine == pc = "loop" /\ i <= Len(lines)

\* How the loop body classifies a line.
IsHeaderLine(line) == Pushed(line) # <<>>

IsOpenLine(line) == ~IsHeaderLine(line) /\ fileContentStart(line).ok

IsCloseLine(line) ==
  ~IsHeaderLine(line) /\ ~fileContentStart(line).ok /\ fileContentEnd(line).ok

IsProseLine(line) ==
  ~IsHeaderLine(line) /\ ~fileContentStart(line).ok /\ ~fileContentEnd(line).ok

\* An action without the content bound to it.
Header(a) == [f \in DOMAIN a \ {"content"} |-> a[f]]

Headers(acts) == [k \in 1..Len(acts) |-> Header(acts[k])]

\* The indices of the CreateFile actions of acts with path p.
CreateFilesFor(acts, p) ==
  {k \in 1..Len(acts) : acts[k].type = "CREATE_FILE" /\ acts[k].path = p}

(***************************************************************************)
(* C1: for every input text the loop processes each line once, in a single *)
(* forward pass, terminates, and returns the list of actions: the parser   *)
(* is always at a step it can take or has returned, a step of the loop     *)
(* either consumes exactly the next line or, when no line is left, returns *)
(* the actions, and the number of steps left decreases with every step.    *)
(***************************************************************************)
Remaining ==
  IF pc = "start" THEN Len(response) + 3
  ELSE IF pc = "loop" THEN Len(lines) + 2 - i
  ELSE 0

C1_TotalSinglePass ==
  /\ [](\/ pc = "start"
        \/ pc = "loop" /\ i \in 1..Len(lines) + 1
        \/ pc = "done" /\ i = Len(lines) + 1)
  /\ [][ /\ Remaining' < Remaining
         /\ pc = "loop" =>
              \/ i <= Len(lines) /\ i' = i + 1 /\ pc' = "loop" /\ lines' = lines
              \/ i = Len(lines) + 1 /\ pc' = "done" /\ result' = actions ]_vars

\* A parse has returned for a text with a lone close marker and a block
\* that is never closed.
C1_Witness ==
  /\ pc = "done"
  /\ lines = <<CloseFileContent, OpenLine(PathB), <<"y">>>>
  /\ currentFilePath = PathB
  /\ result = <<>>

(***************************************************************************)
(* C2: the actions are in the order in which their header markers appear   *)
(* in the text: the actions emitted so far, content aside, are the actions *)
(* of the header lines processed so far, line after line.                  *)
(***************************************************************************)
RECURSIVE HeadersOf(_)
HeadersOf(ls) == IF ls = <<>> THEN <<>> ELSE Pushed(Head(ls)) \o HeadersOf(Tail(ls))

C2_TextOrder ==
  /\ pc = "loop" => Headers(actions) = HeadersOf(SubSeq(lines, 1, i - 1))
  /\ pc = "done" => Headers(result) = HeadersOf(lines)

\* Two actions of different types with a content block between them.
C2_Witness ==
  /\ pc = "done"
  /\ Len(result) = 2
  /\ result[1].type = "CREATE_FILE"
  /\ "content" \in DOMAIN result[1]
  /\ result[2].type = "MOVE_FILE"

(***************************************************************************)
(* The marker grammar of the specification, read off the text of a line    *)
(* without the parser's patterns: the header types in priority order, and  *)
(* the fields between a marker's opening and its closing bracket.          *)
(***************************************************************************)
Priority ==
  << [open |-> OpenCreateFile, type |-> "CREATE_FILE", paths |-> 1],
     [open |-> OpenCreateDirectory, type |-> "CREATE_DIRECTORY", paths |-> 1],
     [open |-> OpenCreateFolder, type |-> "CREATE_DIRECTORY", paths |-> 1],
     [open |-> OpenDeleteFile, type |-> "DELETE_FILE", paths |-> 1],
     [open |-> OpenDeleteDirectory, type |-> "DELETE_DIRECTORY", paths |-> 1],
     [open |-> OpenMoveFile, type |-> "MOVE_FILE", paths |-> 2],
     [open |-> OpenCopyFile, type |-> "COPY_FILE", paths |-> 2],
     [open |-> OpenEditFile, type |-> "EDIT_FILE", paths |-> 1] >>

SingleField == {r \in 1..Len(Priority) : Priority[r].paths = 1}

\* The text of line between the opening of rank r and the final bracket.
Inner(r, line) == SubSeq(line, Len(Priority[r].open) + 1, Len(line) - 1)

Colons(s) == {k \in 1..Len(s) : s[k] = ":"}

\* line is exactly [T:<path>:<description>] for the single-field type of
\* rank r: the fields lie inside a single bracket pair (no bracket inside
\* them), the path is non-empty and has no colon, the description is
\* non-empty.
IsMarkerOf(r, line) ==
  LET o == Priority[r].open IN
    /\ Len(line) > Len(o) + 1
    /\ SubSeq(line, 1, Len(o)) = o
    /\ line[Len(line)] = "]"
    /\ \A k \in 1..Len(Inner(r, line)) : Inner(r, line)[k] \notin {"[", "]"}
    /\ Colons(Inner(r, line)) # {}
    /\ Min(Colons(Inner(r, line))) \in 2..(Len(Inner(r, line)) - 1)

MarkerPath(r, line) == SubSeq(Inner(r, line), 1, Min(Colons(Inner(r, line))) - 1)

MarkerDescription(r, line) ==
  SubSeq(Inner(r, line), Min(Colons(Inner(r, line))) + 1, Len(Inner(r, line)))

MarkerAction(r, line) ==
  [type |-> Priority[r].type, path |-> MarkerPath(r, line),
   description |-> MarkerDescription(r, line)]

(***************************************************************************)
(* C3: every well-formed single-field marker line yields exactly one       *)
(* action, of the variant of its type, with exactly the path and the       *)
(* description of the marker; CREATE_FOLDER yields CREATE_DIRECTORY.        *)
(***************************************************************************)
C3_SingleFieldMarker ==
  [][ \A r \in SingleField :
        AtLine /\ IsMarkerOf(r, lines[i]) =>
          actions' = Append(actions, MarkerAction(r, lines[i])) ]_vars

\* A CREATE_FOLDER marker line has been parsed into a CREATE_DIRECTORY action.
C3_Witness ==
  /\ pc = "loop"
  /\ i = 2
  /\ IsMarkerOf(3, lines[1])
  /\ actions = <<[type |-> "CREATE_DIRECTORY", path |-> <<"a">>,
                  description |-> <<"d", ":", "e">>]>>

(***************************************************************************)
(* White space stripped from both ends, stated without the parser's trim.  *)
(***************************************************************************)
IsBlank(s) == \A k \in 1..Len(s) : s[k] \in WhiteSpace

\* c is s without its leading and trailing white space.
IsTrimOf(c, s) ==
  /\ c # <<>> => c[1] \notin WhiteSpace /\ c[Len(c)] \notin WhiteSpace
  /\ \E a \in 0..Len(s) :
       /\ a + Len(c) <= Len(s)
       /\ SubSeq(s, a + 1, a + Len(c)) = c
       /\ IsBlank(SubSeq(s, 1, a))
       /\ IsBlank(SubSeq(s, a + Len(c) + 1, Len(s)))

(***************************************************************************)
(* C4: when a close marker is processed while a block with path p is open, *)
(* the trimmed buffer becomes the content of the last emitted CreateFile   *)
(* action with path p and of no other action, and the buffering state is   *)
(* reset.                                                                  *)
(***************************************************************************)
C4_BindToLastCreateFile ==
  [][ AtLine /\ IsCloseLine(lines[i]) /\ currentFilePath # <<>> =>
        /\ currentFilePath' = <<>>
        /\ currentContent' = <<>>
        /\ Len(actions') = Len(actions)
        /\ LET c == CreateFilesFor(actions, currentFilePath) IN
             \A k \in 1..Len(actions) :
               IF c # {} /\ k = Max(c)
               THEN /\ Header(actions'[k]) = Header(actions[k])
                    /\ "content" \in DOMAIN actions'[k]
                    /\ IsTrimOf(actions'[k].content, currentContent)
               ELSE actions'[k] = actions[k] ]_vars

\* Of two CreateFile actions with the same path the later one got the content.
C4_Witness ==
  /\ pc = "loop"
  /\ Len(actions) = 2
  /\ actions[1].type = "CREATE_FILE"
  /\ actions[2].type = "CREATE_FILE"
  /\ actions[1].path = actions[2].path
  /\ "content" \notin DOMAIN actions[1]
  /\ "content" \in DOMAIN actions[2]
  /\ actions[2].content = <<"x">>
  /\ currentFilePath = <<>>
  /\ currentContent = <<>>

(***************************************************************************)
(* C5: a header marker is recognised with other text before or after it on *)
(* its line: the scenario text parses to exactly one CreateFile action     *)
(* with path src/x.js and content console.log(1);                          *)
(***************************************************************************)
C5_Scenario ==
  \A pre \in ScenarioPrefixes, post \in ScenarioSuffixes :
    pc = "done" /\ response = Join(Scenario(pre, post)) =>
      result = <<[type |-> "CREATE_FILE", path |-> ScenarioPath,
                  description |-> ScenarioDescription, content |-> ScenarioContent]>>

\* The scenario of the specification, "Sure! [CREATE_FILE:...", has been parsed.
C5_Witness ==
  /\ pc = "done"
  /\ response = Join(Scenario(<<"S", "u", "r", "e", "!", " ">>, <<>>))
  /\ Len(result) = 1
  /\ result[1].content = ScenarioContent

(***************************************************************************)
(* C6: when a block with path p is closed and no emitted CreateFile action *)
(* has path p, the buffer is discarded: no action is added and none is     *)
(* modified; the same holds for a block still open when the input ends.    *)
(***************************************************************************)
C6_UnboundDiscarded ==
  [][ /\ AtLine /\ IsCloseLine(lines[i]) /\ currentFilePath # <<>>
         /\ CreateFilesFor(actions, currentFilePath) = {}
           => actions' = actions /\ currentContent' = <<>> /\ currentFilePath' = <<>>
      /\ pc = "loop" /\ pc' = "done" /\ currentFilePath # <<>>
           => result' = actions /\ actions' = actions ]_vars

\* A block for a path that only an EditFile action has was closed, with
\* content in the buffer, and the EditFile action is all there is.
C6_Witness ==
  /\ pc = "done"
  /\ lines = <<Hdr(OpenEditFile, PathA, DescD), OpenLine(PathA), <<" ", "x", " ">>,
               CloseFileContent>>
  /\ result = <<[type |-> "EDIT_FILE", path |-> PathA, description |-> DescD]>>

(***************************************************************************)
(* C7: a close marker, or a plain prose line, processed while no content   *)
(* block is open leaves the action list, every action's content, the open  *)
(* path and the buffer unchanged.                                          *)
(***************************************************************************)
C7_IgnoredWhenIdle ==
  [][ /\ AtLine
      /\ currentFilePath = <<>>
      /\ IsCloseLine(lines[i]) \/ IsProseLine(lines[i])
      => UNCHANGED <<actions, currentContent, currentFilePath>> ]_vars

\* A lone close marker and a prose line were processed after a CreateFile.
C7_Witness ==
  /\ pc = "loop"
  /\ i = 4
  /\ lines = <<Hdr(OpenCreateFile, PathA, DescD), CloseFileContent, <<"h", "i">>>>
  /\ actions = <<[type |-> "CREATE_FILE", path |-> PathA, description |-> DescD]>>
  /\ currentContent = <<>>
  /\ currentFilePath = <<>>

(***************************************************************************)
(* Malformed markers, by the grammar: a marker of rank r starts wherever   *)
(* its opening occurs and ends at the first closing bracket after it; it   *)
(* is well formed when that bracket exists and the text between holds the  *)
(* required colon-delimited fields, none of them empty.                    *)
(***************************************************************************)
Occurrences(r, line) ==
  LET o == Priority[r].open
  IN  {s \in 1..Len(line) :
         s + Len(o) - 1 <= Len(line) /\ SubSeq(line, s, s + Len(o) - 1) = o}

WellFormedAt(r, line, s) ==
  LET from == s + Len(Priority[r].open)
      closes == {k \in from..Len(line) : line[k] = "]"}
  IN  /\ closes # {}
      /\ LET body == SubSeq(line, from, Min(closes) - 1)
             cs == Colons(body)
         IN  /\ Cardinality(cs) >= Priority[r].paths
             /\ Min(cs) > 1
             /\ IF Priority[r].paths = 1
                THEN Min(cs) < Len(body)
                ELSE /\ Min(cs \ {Min(cs)}) > Min(cs) + 1
                     /\ Min(cs \ {Min(cs)}) < Len(body)

\* The line holds header markers, and every one of them is malformed.
IsMalformedMarkerLine(line) ==
  /\ \E r \in 1..Len(Priority) : Occurrences(r, line) # {}
  /\ \A r \in 1..Len(Priority) : \A s \in Occurrences(r, line) : ~WellFormedAt(r, line, s)

(***************************************************************************)
(* C8: a malformed marker line produces no action, in particular a         *)
(* MOVE_FILE or COPY_FILE marker with fewer than three fields, whatever    *)
(* text follows it on the line.                                            *)
(***************************************************************************)
C8_MalformedDropped ==
  [][ AtLine /\ IsMalformedMarkerLine(lines[i]) => Headers(actions') = Headers(actions) ]_vars

(***************************************************************************)
(* C9 (as stated): while a block is open every non-empty line that is not  *)
(* a marker line is appended to the buffer, followed by a newline, and the *)
(* content bound at the close marker is the buffer with only its leading   *)
(* and trailing blank lines removed.                                       *)
(***************************************************************************)
StripBlankLines(buffer) ==
  LET ls == Split(buffer)
      keep == {k \in 1..Len(ls) : ~IsBlank(ls[k])}
  IN  IF keep = {} THEN <<>> ELSE Join(SubSeq(ls, Min(keep), Max(keep)))

C9_Original ==
  [][ /\ AtLine /\ currentFilePath # <<>> /\ IsProseLine(lines[i]) /\ lines[i] # <<>>
           => /\ currentContent' = currentContent \o lines[i] \o <<"\n">>
              /\ currentFilePath' = currentFilePath
      /\ AtLine /\ IsCloseLine(lines[i]) /\ CreateFilesFor(actions, currentFilePath) # {}
           => LET k == Max(CreateFilesFor(actions, currentFilePath))
              IN  /\ "content" \in DOMAIN actions'[k]
                  /\ actions'[k].content = StripBlankLines(currentContent) ]_vars

(***************************************************************************)
(* C9 (amended): while a block is open every line that is not a marker     *)
(* line and holds a character other than white space is appended to the    *)
(* buffer, followed by a newline, lines of white space alone are skipped,  *)
(* and the block stays open; the content bound at the close marker is the  *)
(* buffer with all its leading and trailing white space removed.           *)
(***************************************************************************)
C9_Buffering ==
  [][ /\ AtLine /\ currentFilePath # <<>> /\ IsProseLine(lines[i])
           => /\ currentContent' = IF IsBlank(lines[i]) THEN currentContent
                                   ELSE currentContent \o lines[i] \o <<"\n">>
              /\ currentFilePath' = currentFilePath
              /\ actions' = actions
      /\ AtLine /\ IsCloseLine(lines[i]) /\ CreateFilesFor(actions, currentFilePath) # {}
           => LET k == Max(CreateFilesFor(actions, currentFilePath))
              IN  /\ "content" \in DOMAIN actions'[k]
                  /\ IsTrimOf(actions'[k].content, currentContent) ]_vars

\* Two content lines with a line of spaces between them were bound: the
\* second keeps its indentation, the line of spaces is gone.
C9_Witness ==
  /\ pc = "loop"
  /\ Len(actions) = 1
  /\ "content" \in DOMAIN actions[1]
  /\ actions[1].content = <<"x", "\n", "\t", "y">>
  /\ currentFilePath = <<>>

(***************************************************************************)
(* C10: every action of the result has a non-empty, workspace-relative     *)
(* path (never an absolute one), and every MoveFile or CopyFile action has *)
(* a non-empty sourcePath and a non-empty destinationPath.                 *)
(***************************************************************************)
IsRelative(path) == path # <<>> /\ path[1] # "/"

C10_DataModel ==
  pc = "done" =>
    \A k \in 1..Len(result) :
      /\ IsRelative(result[k].path)
      /\ result[k].type \in {"MOVE_FILE", "COPY_FILE"} =>
           /\ "sourcePath" \in DOMAIN result[k]
           /\ "destinationPath" \in DOMAIN result[k]
           /\ IsRelative(result[k].sourcePath)
           /\ IsRelative(result[k].destinationPath)

(***************************************************************************)
(* The file operations of AIService (aiService.ts, lines 102-324).         *)
(*                                                                         *)
(* A path is the sequence of its segments: "a/b.txt" is <<"a", "b.txt">>.  *)
(* A full path is absolute and normalised; the empty sequence is "/".      *)
(* The file system maps every full path that exists to its entry; the     *)
(* parent of every entry is a directory.                                   *)
(***************************************************************************)

\* The entry of a directory.
Dir == [kind |-> "dir", content |-> <<>>]

\* The entry of a regular file holding c.
File(c) == [kind |-> "file", content |-> c]

\* path.dirname of a full path.
Dirname(p) == IF p = <<>> THEN <<>> ELSE SubSeq(p, 1, Len(p) - 1)

\* The directories a full path goes through, "/" included, p excluded.
Ancestors(p) == {SubSeq(p, 1, k) : k \in 0..(Len(p) - 1)}

\* q is p or lies in the subtree rooted at p.
Under(p, q) == Len(q) >= Len(p) /\ SubSeq(q, 1, Len(p)) = p

\* path.normalize on the segments of an absolute path: "." and empty
\* segments are dropped, ".." removes the segment before it and stays at "/".
RECURSIVE NormalizeFrom(_, _, _)
NormalizeFrom(segs, k, acc) ==
  IF k > Len(segs) THEN acc
  ELSE IF segs[k] \in {"", "."} THEN NormalizeFrom(segs, k + 1, acc)
  ELSE IF segs[k] = ".." THEN NormalizeFrom(segs, k + 1, Dirname(acc))
  ELSE NormalizeFrom(segs, k + 1, Append(acc, segs[k]))

Normalize(segs) == NormalizeFrom(segs, 1, <<>>)

\* path.join(folder, rel): the segments are put together, then normalised.
\* A second argument that starts with "/" does not reset the result.
PathJoin(folder, rel) == Normalize(folder \o rel)

\* fs.existsSync
existsSync(fs, p) == p \in DOMAIN fs

isDirectory(fs, p) == existsSync(fs, p) /\ fs[p].kind = "dir"

isFile(fs, p) == existsSync(fs, p) /\ fs[p].kind = "file"

\* The outcome of a call of the fs module: the file system it leaves and the
\* code of the error it throws, "" when it returns.
Done(fs) == [fs |-> fs, err |-> ""]

Failed(fs, code) == [fs |-> fs, err |-> code]

\* The file system with entry e at p.
Put(fs, p, e) == [q \in DOMAIN fs \cup {p} |-> IF q = p THEN e ELSE fs[q]]

\* The file system without the entries of the set gone.
Without(fs, gone) == [q \in DOMAIN fs \ gone |-> fs[q]]

\* The entries of the subtree rooted at p.
Subtree(fs, p) == {q \in DOMAIN fs : Under(p, q)}

\* fs.mkdirSync(p) without the recursive option: the parent must exist.
mkdirSync_NotRecursive(fs, p) ==
  IF existsSync(fs, p) THEN Failed(fs, "EEXIST")
  ELSE IF ~existsSync(fs, Dirname(p)) THEN Failed(fs, "ENOENT")
  ELSE IF ~isDirectory(fs, Dirname(p)) THEN Failed(fs, "ENOTDIR")
  ELSE Done(Put(fs, p, Dir))

\* fs.mkdirSync(p, { recursive: true }): p and its missing ancestors are
\* made, and an existing directory is no error.
mkdirSync(fs, p) ==
  IF isDirectory(fs, p) THEN Done(fs)
  ELSE IF isFile(fs, p) THEN Failed(fs, "EEXIST")
  ELSE IF \E a \in Ancestors(p) : isFile(fs, a) THEN Failed(fs, "ENOTDIR")
  ELSE Done([q \in DOMAIN fs \cup Ancestors(p) \cup {p} |->
               IF q \in DOMAIN fs THEN fs[q] ELSE Dir])

\* Mutant of writeFileSync: the flag 'a', the content is put after what
\* the file holds.
writeFileSync_Appends(fs, p, c) ==
  IF isDirectory(fs, p) THEN Failed(fs, "EISDIR")
  ELSE IF isFile(fs, p) THEN Done(Put(fs, p, File(fs[p].content \o c)))
  ELSE IF ~existsSync(fs, Dirname(p)) THEN Failed(fs, "ENOENT")
  ELSE IF ~isDirectory(fs, Dirname(p)) THEN Failed(fs, "ENOTDIR")
  ELSE Done(Put(fs, p, File(c)))

\* fs.writeFileSync(p, c, 'utf8'): creates or truncates the file.
writeFileSync(fs, p, c) ==
  IF isDirectory(fs, p) THEN Failed(fs, "EISDIR")
  ELSE IF isFile(fs, p) THEN Done(Put(fs, p, File(c)))
  ELSE IF ~existsSync(fs, Dirname(p)) THEN Failed(fs, "ENOENT")
  ELSE IF ~isDirectory(fs, Dirname(p)) THEN Failed(fs, "ENOTDIR")
  ELSE Done(Put(fs, p, File(c)))

\* fs.readFileSync(p, 'utf8'): the content, or the error.
readFileSync(fs, p) ==
  IF ~existsSync(fs, p) THEN [data |-> <<>>, err |-> "ENOENT"]
  ELSE IF isDirectory(fs, p) THEN [data |-> <<>>, err |-> "EISDIR"]
  ELSE [data |-> fs[p].content, err |-> ""]

\* fs.unlinkSync(p): removes a file, never a directory.
unlinkSync(fs, p) ==
  IF ~existsSync(fs, p) THEN Failed(fs, "ENOENT")
  ELSE IF isDirectory(fs, p) THEN Failed(fs, "EISDIR")
  ELSE Done(Without(fs, {p}))

\* fs.rmSync(p, { force: true }) without the recursive option: a directory
\* is not removed.
rmSync_NotRecursive(fs, p) ==
  IF isDirectory(fs, p) THEN Failed(fs, "ERR_FS_EISDIR")
  ELSE Done(Without(fs, {p}))

\* fs.rmSync(p, { recursive: true, force: true }): removes what is at p
\* with everything below it; a missing p is no error.
rmSync(fs, p) == Done(Without(fs, Subtree(fs, p)))

\* The file system after the subtree rooted at s has been moved to d.
Moved(fs, s, d) ==
  LET from == Subtree(fs, s)
      to == {d \o SubSeq(q, Len(s) + 1, Len(q)) : q \in from}
  IN [q \in ((DOMAIN fs \ from) \ Subtree(fs, d)) \cup to |->
        IF q \in to THEN fs[s \o SubSeq(q, Len(d) + 1, Len(q))] ELSE fs[q]]

\* fs.renameSync(s, d) (rename(2)): the entry at s, with what is below it,
\* takes the place of d.  A file replaces a file, a directory replaces an
\* empty directory; renaming an entry to itself does nothing.
renameSync(fs, s, d) ==
  IF ~existsSync(fs, s) THEN Failed(fs, "ENOENT")
  ELSE IF ~existsSync(fs, Dirname(d)) THEN Failed(fs, "ENOENT")
  ELSE IF ~isDirectory(fs, Dirname(d)) THEN Failed(fs, "ENOTDIR")
  ELSE IF s = d THEN Done(fs)
  ELSE IF isFile(fs, s) /\ isDirectory(fs, d) THEN Failed(fs, "EISDIR")
  ELSE IF isDirectory(fs, s) /\ isFile(fs, d) THEN Failed(fs, "ENOTDIR")
  ELSE IF isDirectory(fs, s) /\ Under(s, d) THEN Failed(fs, "EINVAL")
  ELSE IF isDirectory(fs, s) /\ Subtree(fs, d) \ {d} # {} THEN Failed(fs, "ENOTEMPTY")
  ELSE Done(Moved(fs, s, d))

\* fs.copyFileSync(s, d) that moves the source instead of copying it.
copyFileSync_Rename(fs, s, d) == renameSync(fs, s, d)

\* fs.copyFileSync(s, d): d becomes a file with the content of the file s;
\* copying a file onto itself does nothing.
copyFileSync(fs, s, d) ==
  IF ~existsSync(fs, s) THEN Failed(fs, "ENOENT")
  ELSE IF isDirectory(fs, s) THEN Failed(fs, "EISDIR")
  ELSE IF s = d THEN Done(fs)
  ELSE IF isDirectory(fs, d) THEN Failed(fs, "EISDIR")
  ELSE IF ~existsSync(fs, Dirname(d)) THEN Failed(fs, "ENOENT")
  ELSE IF ~isDirectory(fs, Dirname(d)) THEN Failed(fs, "ENOTDIR")
  ELSE Done(Put(fs, d, File(fs[s].content)))

\* vscode.window.showTextDocument(uri): rejects when the editor cannot
\* open the file (opens is FALSE); the file system is not touched.
showTextDocument(fs, p, opens) ==
  IF opens THEN Done(fs) ELSE Failed(fs, "CannotOpen")

\* What a file operation does: the file system it leaves, whether it
\* returned (ok) or threw, and the text of the message or of the error.
Returns(fs, msg) == [fs |-> fs, ok |-> TRUE, msg |-> msg]

Throws(fs, msg) == [fs |-> fs, ok |-> FALSE, msg |-> msg]

NoWorkspace == "No workspace folder open"

NotFound == "does not exist"

\* The directory of a file is left as it is.
EnsureDir_Skipped(fs, dirPath) == Done(fs)

\* Lines 116-120, 255-258, 283-286: the directory of a file is made when
\* it does not exist.
EnsureDir(fs, dirPath) ==
  IF ~existsSync(fs, dirPath) THEN mkdirSync(fs, dirPath) ELSE Done(fs)

\* createFile that writes only where no file exists yet.
createFile_NoOverwrite(fs, folders, filePath, content, opens) ==
  IF folders = <<>> THEN Throws(fs, NoWorkspace)
  ELSE LET fullPath == PathJoin(folders[1], filePath)
           dir == EnsureDir(fs, Dirname(fullPath))
       IN IF dir.err # "" THEN Throws(dir.fs, dir.err)
          ELSE IF existsSync(dir.fs, fullPath) THEN Throws(dir.fs, "EEXIST")
          ELSE LET written == writeFileSync(dir.fs, fullPath, content)
               IN IF written.err # "" THEN Throws(written.fs, written.err)
                  ELSE Returns(written.fs, "created successfully")

\* Lines 102-140.  The failure to open the file in the editor is caught.
createFile(fs, folders, filePath, content, opens) ==
  IF folders = <<>> THEN Throws(fs, NoWorkspace)
  ELSE LET fullPath == PathJoin(folders[1], filePath)
           dir == EnsureDir(fs, Dirname(fullPath))
       IN IF dir.err # "" THEN Throws(dir.fs, dir.err)
          ELSE LET written == writeFileSync(dir.fs, fullPath, content)
                   shown == showTextDocument(written.fs, fullPath, opens)
               IN IF written.err # "" THEN Throws(written.fs, written.err)
                  ELSE Returns(shown.fs, "created successfully")

\* createDirectory that makes the directory without looking first.
createDirectory_NoExistsTest(fs, folders, dirPath) ==
  IF folders = <<>> THEN Throws(fs, NoWorkspace)
  ELSE LET fullPath == PathJoin(folders[1], dirPath)
           dir == mkdirSync_NotRecursive(fs, fullPath)
       IN IF dir.err # "" THEN Throws(dir.fs, dir.err)
          ELSE Returns(dir.fs, "created successfully")

\* Lines 142-161.
createDirectory(fs, folders, dirPath) ==
  IF folders = <<>> THEN Throws(fs, NoWorkspace)
  ELSE LET fullPath == PathJoin(folders[1], dirPath)
           dir == mkdirSync(fs, fullPath)
       IN IF existsSync(fs, fullPath) THEN Returns(fs, "already exists")
          ELSE IF dir.err # "" THEN Throws(dir.fs, dir.err)
          ELSE Returns(dir.fs, "created successfully")

\* deleteFile that leaves the test of the path to unlinkSync.
deleteFile_NoExistsTest(fs, folders, filePath) ==
  IF folders = <<>> THEN Throws(fs, NoWorkspace)
  ELSE LET gone == unlinkSync(fs, PathJoin(folders[1], filePath))
       IN IF gone.err # "" THEN Throws(gone.fs, gone.err)
          ELSE Returns(gone.fs, "deleted successfully")

\* Lines 163-182.
deleteFile(fs, folders, filePath) ==
  IF folders = <<>> THEN Throws(fs, NoWorkspace)
  ELSE LET fullPath == PathJoin(folders[1], filePath)
           gone == unlinkSync(fs, fullPath)
       IN IF ~existsSync(fs, fullPath) THEN Throws(fs, NotFound)
          ELSE IF gone.err # "" THEN Throws(gone.fs, gone.err)
          ELSE Returns(gone.fs, "deleted successfully")

\* deleteDirectory that lets rmSync with force pass over a missing path.
deleteDirectory_NoExistsTest(fs, folders, dirPath) ==
  IF folders = <<>> THEN Throws(fs, NoWorkspace)
  ELSE Returns(rmSync(fs, PathJoin(folders[1], dirPath)).fs, "deleted successfully")

\* Lines 184-203.
deleteDirectory(fs, folders, dirPath) ==
  IF folders = <<>> THEN Throws(fs, NoWorkspace)
  ELSE LET fullPath == PathJoin(folders[1], dirPath)
       IN IF ~existsSync(fs, fullPath) THEN Throws(fs, NotFound)
          ELSE Returns(rmSync(fs, fullPath).fs, "deleted successfully")

\* moveFile that does not make the directory of the destination.
moveFile_NoEnsureDir(fs, folders, sourcePath, destinationPath) ==
  IF folders = <<>> THEN Throws(fs, NoWorkspace)
  ELSE LET fullSourcePath == PathJoin(folders[1], sourcePath)
           fullDestPath == PathJoin(folders[1], destinationPath)
           moved == renameSync(fs, fullSourcePath, fullDestPath)
       IN IF ~existsSync(fs, fullSourcePath) THEN Throws(fs, NotFound)
          ELSE IF moved.err # "" THEN Throws(moved.fs, moved.err)
          ELSE Returns(moved.fs, "moved")

\* Lines 240-266.
moveFile(fs, folders, sourcePath, destinationPath) ==
  IF folders = <<>> THEN Throws(fs, NoWorkspace)
  ELSE LET fullSourcePath == PathJoin(folders[1], sourcePath)
           fullDestPath == PathJoin(folders[1], destinationPath)
           dir == EnsureDir(fs, Dirname(fullDestPath))
           moved == renameSync(dir.fs, fullSourcePath, fullDestPath)
       IN IF ~existsSync(fs, fullSourcePath) THEN Throws(fs, NotFound)
          ELSE IF dir.err # "" THEN Throws(dir.fs, dir.err)
          ELSE IF moved.err # "" THEN Throws(moved.fs, moved.err)
          ELSE Returns(moved.fs, "moved")

\* Lines 268-294.
copyFile(fs, folders, sourcePath, destinationPath) ==
  IF folders = <<>> THEN Throws(fs, NoWorkspace)
  ELSE LET fullSourcePath == PathJoin(folders[1], sourcePath)
           fullDestPath == PathJoin(folders[1], destinationPath)
           dir == EnsureDir(fs, Dirname(fullDestPath))
           copied == copyFileSync(dir.fs, fullSourcePath, fullDestPath)
       IN IF ~existsSync(fs, fullSourcePath) THEN Throws(fs, NotFound)
          ELSE IF dir.err # "" THEN Throws(dir.fs, dir.err)
          ELSE IF copied.err # "" THEN Throws(copied.fs, copied.err)
          ELSE Returns(copied.fs, "copied")

\* editFile that writes the file whether or not it exists.
editFile_Creates(fs, folders, filePath, content, opens) ==
  createFile(fs, folders, filePath, content, opens)

\* Lines 296-324.  The file is written before it is opened in the editor,
\* and the failure to open it is thrown.
editFile(fs, folders, filePath, content, opens) ==
  IF folders = <<>> THEN Throws(fs, NoWorkspace)
  ELSE LET fullPath == PathJoin(folders[1], filePath)
           currentFileContent == readFileSync(fs, fullPath)
           written == writeFileSync(fs, fullPath, content)
           shown == showTextDocument(written.fs, fullPath, opens)
       IN IF ~existsSync(fs, fullPath) THEN Throws(fs, NotFound)
          ELSE IF currentFileContent.err # "" THEN Throws(fs, currentFileContent.err)
          ELSE IF written.err # "" THEN Throws(written.fs, written.err)
          ELSE IF shown.err # "" THEN Throws(shown.fs, shown.err)
          ELSE Returns(shown.fs, "edited")

(***************************************************************************)
(* Inputs of the file operations: the workspace folder, the file systems   *)
(* the calls start from, the paths and contents passed, the calls made.    *)
(***************************************************************************)

\* The longest sequence of calls made on one file system.
MaxCalls == 2

\* workspaceFolders[0].uri.fsPath: /home/w
WorkspaceRoot == <<"home", "w">>

\* vscode.workspace.workspaceFolders: no folder open, or one.
FolderLists == {<<>>, <<WorkspaceRoot>>}

\* The file system that holds the directories dirs and the files files.
Tree(dirs, files) ==
  [q \in dirs \cup DOMAIN files |-> IF q \in dirs THEN Dir ELSE File(files[q])]

\* An empty workspace folder.
EmptyDirs == {<<>>, <<"home">>, WorkspaceRoot}

\* Files f and g and directory d with file d/f in the workspace, directory
\* /home/o with file /home/o/f beside the workspace.
DiskFull ==
  Tree(EmptyDirs \cup {WorkspaceRoot \o <<"d">>, <<"home", "o">>},
       (WorkspaceRoot \o <<"f">> :> <<"a">>) @@ (WorkspaceRoot \o <<"g">> :> <<"b">>)
         @@ (WorkspaceRoot \o <<"d", "f">> :> <<"c">>) @@ (<<"home", "o", "f">> :> <<"o">>))

\* A regular file named d and a file f in the workspace.
DiskFileD ==
  Tree(EmptyDirs, (WorkspaceRoot \o <<"d">> :> <<"a">>) @@ (WorkspaceRoot \o <<"f">> :> <<"b">>))

\* Directory d with the empty directory d/e, and file f, in the workspace.
DiskNested ==
  Tree(EmptyDirs \cup {WorkspaceRoot \o <<"d">>, WorkspaceRoot \o <<"d", "e">>}, (WorkspaceRoot \o <<"f">> :> <<"a">>))

Disks == {Tree(EmptyDirs, <<>>), DiskFull, DiskFileD, DiskNested}

\* The paths passed to the operations, relative to the workspace folder:
\* f, d, d/f, d/e, d/e/f, ".", "d/../f", "../o", "../o/f".
RelPaths ==
  {<<"f">>, <<"d">>, <<"d", "f">>, <<"d", "e">>, <<"d", "e", "f">>, <<".">>,
   <<"d", "..", "f">>, <<"..", "o">>, <<"..", "o", "f">>}

\* The contents passed to createFile and editFile.
Contents == {<<"x">>, <<"y">>}

\* A call of an operation on one path, and of an operation on two.
Call(op, path, content) ==
  [op |-> op, path |-> path, content |-> content, destinationPath |-> <<>>]

Call2(op, sourcePath, destinationPath) ==
  [op |-> op, path |-> sourcePath, content |-> <<>>, destinationPath |-> destinationPath]

Calls ==
  {Call(op, p, c) : op \in {"createFile", "editFile"}, p \in RelPaths, c \in Contents}
    \cup {Call(op, p, <<>>) :
            op \in {"createDirectory", "deleteFile", "deleteDirectory"}, p \in RelPaths}
    \cup {Call2(op, s, d) : op \in {"moveFile", "copyFile"}, s \in RelPaths, d \in RelPaths}

\* The calls made one after the other on the same file system.
SeriesCalls ==
  {Call("createDirectory", <<"d">>, <<>>), Call("createDirectory", <<"d", "e">>, <<>>),
   Call("createFile", <<"d", "f">>, <<"x">>), Call("createFile", <<"d", "e", "f">>, <<"x">>),
   Call("editFile", <<"f">>, <<"y">>), Call("editFile", <<"d", "f">>, <<"y">>),
   Call2("copyFile", <<"f">>, <<"d", "f">>), Call2("copyFile", <<"f">>, <<"d", "..", "f">>),
   Call2("moveFile", <<"f">>, <<"d", "f">>), Call("deleteFile", <<"d", "f">>, <<>>),
   Call("deleteDirectory", <<"d">>, <<>>)}

\* The sequences of at most len series calls.
RECURSIVE Series(_)
Series(len) ==
  IF len = 0 THEN {<<>>}
  ELSE Series(len - 1)
         \cup {Append(s, c) : s \in {t \in Series(len - 1) : Len(t) = len - 1},
                               c \in SeriesCalls}

Scripts == {<<c>> : c \in Calls} \cup (Series(MaxCalls) \ {<<>>})

(***************************************************************************)
(* The calls of the file operations, one after the other.                  *)
(***************************************************************************)

\* Before the first call: a workspace, a file system, the calls to come.
ExecInit ==
  /\ ParserIdle
  /\ HandlerIdle
  /\ IntentIdle
  /\ workspaceFolders \in FolderLists
  /\ disk \in Disks
  /\ script \in Scripts
  /\ made = 0
  /\ log = <<>>

\* The next call is a call of op.
NextCallIs(op) == made < Len(script) /\ script[made + 1].op = op

\* The call has been made with outcome r: the file system is as the call
\* left it, and the log keeps what the call was given and what it did.
Made(call, opens, r) ==
  /\ disk' = r.fs
  /\ log' = Append(log, [call |-> call, opens |-> opens, before |-> disk,
                         after |-> r.fs, ok |-> r.ok, msg |-> r.msg])
  /\ made' = made + 1
  /\ UNCHANGED <<workspaceFolders, script>>
  /\ UNCHANGED parserVars
  /\ UNCHANGED handlerVars
  /\ UNCHANGED intentVars

CreateFile ==
  /\ NextCallIs("createFile")
  /\ \E opens \in BOOLEAN :
       LET call == script[made + 1]
       IN Made(call, opens,
               createFile(disk, workspaceFolders, call.path, call.content, opens))

CreateDirectory ==
  /\ NextCallIs("createDirectory")
  /\ LET call == script[made + 1]
     IN Made(call, TRUE, createDirectory(disk, workspaceFolders, call.path))

DeleteFile ==
  /\ NextCallIs("deleteFile")
  /\ LET call == script[made + 1]
     IN Made(call, TRUE, deleteFile(disk, workspaceFolders, call.path))

DeleteDirectory ==
  /\ NextCallIs("deleteDirectory")
  /\ LET call == script[made + 1]
     IN Made(call, TRUE, deleteDirectory(disk, workspaceFolders, call.path))

MoveFile ==
  /\ NextCallIs("moveFile")
  /\ LET call == script[made + 1]
     IN Made(call, TRUE,
             moveFile(disk, workspaceFolders, call.path, call.destinationPath))

CopyFile ==
  /\ NextCallIs("copyFile")
  /\ LET call == script[made + 1]
     IN Made(call, TRUE,
             copyFile(disk, workspaceFolders, call.path, call.destinationPath))

EditFile ==
  /\ NextCallIs("editFile")
  /\ \E opens \in BOOLEAN :
       LET call == script[made + 1]
       IN Made(call, opens,
               editFile(disk, workspaceFolders, call.path, call.content, opens))

ExecNext ==
  \/ CreateFile
  \/ CreateDirectory
  \/ DeleteFile
  \/ DeleteDirectory
  \/ MoveFile
  \/ CopyFile
  \/ EditFile

ExecSpec == ExecInit /\ [][ExecNext]_vars

(***************************************************************************)
(* Vocabulary of the properties of the file operations.                    *)
(***************************************************************************)

\* The k-th call has been made, it was a call of op, and a workspace
\* folder was open.
Ran(k, op) ==
  /\ k \in 1..Len(log)
  /\ log[k].call.op = op
  /\ workspaceFolders # <<>>

\* The entry a path passed to an operation names.
Resolved(rel) == PathJoin(workspaceFolders[1], rel)

\* The k-th call threw the error of a path at which nothing exists.
FailedNotFound(k) == ~log[k].ok /\ log[k].msg = NotFound

\* Every ancestor of p is a directory of fs.
AncestorsExist(fs, p) == \A a \in Ancestors(p) : isDirectory(fs, a)

\* No ancestor of p is a regular file of fs: the directories down to p
\* exist or can be made.
Reachable(fs, p) == \A a \in Ancestors(p) : ~isFile(fs, a)

\* The file systems fs and gs hold the same entries outside the set ps.
SameOutside(fs, gs, ps) ==
  /\ DOMAIN fs \ ps = DOMAIN gs \ ps
  /\ \A q \in DOMAIN fs \ ps : fs[q] = gs[q]

(***************************************************************************)
(* C11.  createFile has no precondition: when createFile(p, c) succeeds,   *)
(* p is a file that holds exactly c and every ancestor directory of p      *)
(* exists, and it succeeds both where nothing existed at p and where a     *)
(* file existed at p, which is overwritten.                                *)
(***************************************************************************)
C11_CreateFile ==
  \A k \in 1..Len(log) :
    Ran(k, "createFile") =>
      LET p == Resolved(log[k].call.path)
          before == log[k].before
          after == log[k].after
      IN /\ log[k].ok =>
              /\ isFile(after, p)
              /\ readFileSync(after, p).data = log[k].call.content
              /\ AncestorsExist(after, p)
         /\ (~existsSync(before, p) \/ isFile(before, p)) /\ Reachable(before, p)
              => log[k].ok

\* A file with other content has been overwritten, and a file has been
\* created in a directory that did not exist.
C11_Witness ==
  /\ \E k \in 1..Len(log) :
       /\ Ran(k, "createFile") /\ log[k].ok
       /\ isFile(log[k].before, Resolved(log[k].call.path))
       /\ log[k].before[Resolved(log[k].call.path)].content # log[k].call.content
  /\ \E k \in 1..Len(log) :
       /\ Ran(k, "createFile") /\ log[k].ok
       /\ ~existsSync(log[k].before, Dirname(Resolved(log[k].call.path)))

\* Call a makes a directory and call b creates a file in that directory.
MakesDirOf(a, b) ==
  /\ a.op = "createDirectory"
  /\ b.op = "createFile"
  /\ b.path # <<>>
  /\ Dirname(b.path) = a.path

\* Two calls have been made, CreateDirectory(d) and CreateFile(d/f, x), in
\* one order or the other, with a workspace folder open.
BothOrders ==
  /\ workspaceFolders # <<>>
  /\ Len(log) = 2
  /\ MakesDirOf(log[1].call, log[2].call) \/ MakesDirOf(log[2].call, log[1].call)

\* Of the two calls, the call of createFile.
FileCallOfTwo == IF log[1].call.op = "createFile" THEN log[1].call ELSE log[2].call

\* The file system start with directory d, its missing ancestors, and file
\* p holding x.
WithDirAndFile(start, d, p, x) ==
  [q \in DOMAIN start \cup Ancestors(p) \cup {p} |->
     IF q = p THEN File(x) ELSE IF q \in DOMAIN start THEN start[q] ELSE Dir]

\* Both calls succeeded and left directory d with file d/f in it, whatever
\* the order.
BothSucceedSameEnd ==
  LET p == Resolved(FileCallOfTwo.path)
  IN /\ log[1].ok
     /\ log[2].ok
     /\ disk = WithDirAndFile(log[1].before, Dirname(p), p, FileCallOfTwo.content)

\* C12 as stated: wherever d does not exist, CreateDirectory(d) and
\* CreateFile(d/f, x) succeed in both orders and end in the same state.
C12_Original ==
  BothOrders /\ ~existsSync(log[1].before, Dirname(Resolved(FileCallOfTwo.path)))
    => BothSucceedSameEnd

(***************************************************************************)
(* C12.  createFile is self-sufficient for directory creation: starting    *)
(* from a workspace where d does not exist and no ancestor of d is a       *)
(* regular file, CreateDirectory(d) then CreateFile(d/f, x), and the same  *)
(* two calls in the reverse order, succeed at every step and end in the    *)
(* same file system: the one before the calls with directory d, its        *)
(* missing ancestors, and file d/f holding x.                              *)
(***************************************************************************)
C12_SelfSufficient ==
  LET d == Dirname(Resolved(FileCallOfTwo.path))
  IN BothOrders /\ ~existsSync(log[1].before, d) /\ Reachable(log[1].before, d)
       => BothSucceedSameEnd

\* The file was created first, in a directory whose parent did not exist
\* either, and the directory was created after it.
C12_Witness ==
  /\ BothOrders
  /\ MakesDirOf(log[2].call, log[1].call)
  /\ ~existsSync(log[1].before, Dirname(Dirname(Resolved(log[1].call.path))))
  /\ BothSucceedSameEnd

\* Calls k and k + 1 are calls of createDirectory for the same directory.
CreateDirectoryTwice(k) ==
  /\ Ran(k, "createDirectory")
  /\ Ran(k + 1, "createDirectory")
  /\ Resolved(log[k].call.path) = Resolved(log[k + 1].call.path)

(***************************************************************************)
(* C13.  createDirectory is idempotent: a second call of                   *)
(* createDirectory(d) after a successful first call returns success and    *)
(* leaves the file system exactly as the first call left it.               *)
(***************************************************************************)
C13_Idempotent ==
  \A k \in 1..Len(log) :
    CreateDirectoryTwice(k) /\ log[k].ok =>
      /\ log[k + 1].ok
      /\ log[k + 1].after = log[k].after

\* The first call made the directory and the second call found it.
C13_Witness ==
  \E k \in 1..Len(log) :
    /\ CreateDirectoryTwice(k)
    /\ log[k].ok
    /\ log[k].msg = "created successfully"
    /\ log[k].after # log[k].before
    /\ log[k + 1].ok
    /\ log[k + 1].msg = "already exists"

(***************************************************************************)
(* C14.  createDirectory(p) returns its 'already exists' success when a    *)
(* directory exists at p, and otherwise makes p with all its missing       *)
(* ancestors; so after every createDirectory(p) that returns success a     *)
(* directory exists at p.                                                  *)
(***************************************************************************)
C14_DirectoryAfterSuccess ==
  \A k \in 1..Len(log) :
    Ran(k, "createDirectory") /\ log[k].ok =>
      LET p == Resolved(log[k].call.path)
      IN /\ log[k].msg = "already exists" <=> isDirectory(log[k].before, p)
         /\ isDirectory(log[k].after, p)
         /\ AncestorsExist(log[k].after, p)

(***************************************************************************)
(* C15.  deleteFile(p) fails with a not-found error when nothing exists    *)
(* at p and leaves the file system unchanged; when a file exists at p it   *)
(* removes that file and changes nothing else.                             *)
(***************************************************************************)
C15_DeleteFile ==
  \A k \in 1..Len(log) :
    Ran(k, "deleteFile") =>
      LET p == Resolved(log[k].call.path)
          before == log[k].before
          after == log[k].after
      IN /\ ~existsSync(before, p) => FailedNotFound(k) /\ after = before
         /\ isFile(before, p) =>
              /\ log[k].ok
              /\ ~existsSync(after, p)
              /\ SameOutside(before, after, {p})

\* A file has been removed from a file system that holds other entries,
\* and the next call for the same path found nothing.
C15_Witness ==
  \E k \in 1..Len(log) :
    /\ Ran(k, "deleteFile")
    /\ isFile(log[k].before, Resolved(log[k].call.path))
    /\ log[k].ok
    /\ isFile(log[k].after, WorkspaceRoot \o <<"f">>)
    /\ Ran(k + 1, "deleteFile")
    /\ log[k + 1].call = log[k].call
    /\ FailedNotFound(k + 1)

(***************************************************************************)
(* C16.  deleteDirectory(p) fails with a not-found error when p is         *)
(* absent; when a directory exists at p it removes that directory with     *)
(* all its descendants, and no entry outside the subtree rooted at p is    *)
(* changed.                                                                *)
(***************************************************************************)
C16_DeleteDirectory ==
  \A k \in 1..Len(log) :
    Ran(k, "deleteDirectory") =>
      LET p == Resolved(log[k].call.path)
          before == log[k].before
          after == log[k].after
      IN /\ ~existsSync(before, p) => FailedNotFound(k) /\ after = before
         /\ isDirectory(before, p) =>
              /\ log[k].ok
              /\ Subtree(after, p) = {}
              /\ DOMAIN after = DOMAIN before \ Subtree(before, p)
              /\ \A q \in DOMAIN after : after[q] = before[q]

\* A directory that held a file has been removed from a workspace that
\* holds other files.
C16_Witness ==
  \E k \in 1..Len(log) :
    /\ Ran(k, "deleteDirectory")
    /\ log[k].ok
    /\ isDirectory(log[k].before, Resolved(log[k].call.path))
    /\ \E q \in Subtree(log[k].before, Resolved(log[k].call.path)) :
         isFile(log[k].before, q)
    /\ \E q \in DOMAIN log[k].after : isFile(log[k].after, q) /\ Under(WorkspaceRoot, q)

\* The source and the destination the k-th call resolves its paths to.
SourceOf(k) == Resolved(log[k].call.path)

DestinationOf(k) == Resolved(log[k].call.destinationPath)

\* The k-th call found nothing at its source: it threw the not-found
\* error and changed nothing.
AbsentSourceRefused(k) ==
  ~existsSync(log[k].before, SourceOf(k)) =>
    FailedNotFound(k) /\ log[k].after = log[k].before

\* After the k-th call, what was at the source before it, with everything
\* below it, is at the destination.
DestinationHoldsSource(k) ==
  \A q \in Subtree(log[k].before, SourceOf(k)) :
    LET r == DestinationOf(k) \o SubSeq(q, Len(SourceOf(k)) + 1, Len(q))
    IN existsSync(log[k].after, r) /\ log[k].after[r] = log[k].before[q]

\* C17 as stated: whenever s exists the ancestors of d exist afterwards,
\* and after success d holds what s held and s no longer exists.
C17_Original ==
  \A k \in 1..Len(log) :
    Ran(k, "moveFile") =>
      /\ AbsentSourceRefused(k)
      /\ existsSync(log[k].before, SourceOf(k)) =>
           AncestorsExist(log[k].after, DestinationOf(k))
      /\ log[k].ok =>
           /\ DestinationHoldsSource(k)
           /\ ~existsSync(log[k].after, SourceOf(k))

(***************************************************************************)
(* C17.  moveFile(s, d) fails with a not-found error and changes nothing   *)
(* when s is absent.  When s exists it makes the missing ancestor          *)
(* directories of d, unless an ancestor of d is a regular file; after      *)
(* success d holds what s held before the call, whatever file was at d     *)
(* before, and s no longer exists unless s and d are the same path.        *)
(***************************************************************************)
C17_MoveFile ==
  \A k \in 1..Len(log) :
    Ran(k, "moveFile") =>
      /\ AbsentSourceRefused(k)
      /\ existsSync(log[k].before, SourceOf(k))
           /\ Reachable(log[k].before, DestinationOf(k))
           => AncestorsExist(log[k].after, DestinationOf(k))
      /\ log[k].ok =>
           /\ AncestorsExist(log[k].after, DestinationOf(k))
           /\ DestinationHoldsSource(k)
           /\ SourceOf(k) # DestinationOf(k) => ~existsSync(log[k].after, SourceOf(k))
           /\ SourceOf(k) = DestinationOf(k) => log[k].after = log[k].before

\* A file has been moved onto a file with other content.
C17_Witness ==
  \E k \in 1..Len(log) :
    /\ Ran(k, "moveFile")
    /\ log[k].ok
    /\ isFile(log[k].before, SourceOf(k))
    /\ isFile(log[k].before, DestinationOf(k))
    /\ log[k].before[DestinationOf(k)] # log[k].before[SourceOf(k)]
    /\ log[k].after[DestinationOf(k)] = log[k].before[SourceOf(k)]
    /\ ~existsSync(log[k].after, SourceOf(k))

\* Call k + 1 is a successful or failed editFile on the source of the
\* copy made by call k, which succeeded.
EditAfterCopy(k) ==
  /\ Ran(k, "copyFile")
  /\ log[k].ok
  /\ Ran(k + 1, "editFile")
  /\ Resolved(log[k + 1].call.path) = SourceOf(k)

\* C18 as stated: after a successful copy d holds the content of s, s is
\* unchanged, and no later editFile on s changes d.
C18_Original ==
  \A k \in 1..Len(log) :
    Ran(k, "copyFile") =>
      /\ AbsentSourceRefused(k)
      /\ log[k].ok =>
           /\ AncestorsExist(log[k].after, DestinationOf(k))
           /\ isFile(log[k].after, DestinationOf(k))
           /\ log[k].after[DestinationOf(k)] = log[k].before[SourceOf(k)]
           /\ log[k].after[SourceOf(k)] = log[k].before[SourceOf(k)]
      /\ EditAfterCopy(k) =>
           /\ existsSync(log[k + 1].after, DestinationOf(k))
           /\ log[k + 1].after[DestinationOf(k)] = log[k].after[DestinationOf(k)]

(***************************************************************************)
(* C18.  copyFile(s, d) fails with a not-found error and changes nothing   *)
(* when s is absent.  After success d is a file that holds exactly the     *)
(* content of s, whatever file was at d before, s is unchanged and the     *)
(* ancestors of d exist; and when s and d are not the same path, a later   *)
(* editFile on s does not change d.                                        *)
(***************************************************************************)
C18_CopyFile ==
  \A k \in 1..Len(log) :
    Ran(k, "copyFile") =>
      /\ AbsentSourceRefused(k)
      /\ log[k].ok =>
           /\ AncestorsExist(log[k].after, DestinationOf(k))
           /\ isFile(log[k].after, DestinationOf(k))
           /\ log[k].after[DestinationOf(k)] = log[k].before[SourceOf(k)]
           /\ log[k].after[SourceOf(k)] = log[k].before[SourceOf(k)]
      /\ EditAfterCopy(k) /\ SourceOf(k) # DestinationOf(k) =>
           /\ existsSync(log[k + 1].after, DestinationOf(k))
           /\ log[k + 1].after[DestinationOf(k)] = log[k].after[DestinationOf(k)]

\* A file has been copied onto a file with other content, then the source
\* has been given new content and the copy has kept the old.
C18_Witness ==
  \E k \in 1..Len(log) :
    /\ EditAfterCopy(k)
    /\ isFile(log[k].before, DestinationOf(k))
    /\ log[k].before[DestinationOf(k)] # log[k].before[SourceOf(k)]
    /\ log[k + 1].after[SourceOf(k)] # log[k].after[SourceOf(k)]
    /\ log[k + 1].after[DestinationOf(k)] = log[k].before[SourceOf(k)]

(***************************************************************************)
(* C19.  editFile never creates a file: editFile(p, c) on an absent p      *)
(* fails with a not-found error and p is still absent afterwards; on an    *)
(* existing file p it replaces the full content of the file with c.        *)
(***************************************************************************)
C19_EditFile ==
  \A k \in 1..Len(log) :
    Ran(k, "editFile") =>
      LET p == Resolved(log[k].call.path)
          before == log[k].before
          after == log[k].after
      IN /\ DOMAIN after = DOMAIN before
         /\ ~existsSync(before, p) =>
              /\ FailedNotFound(k)
              /\ ~existsSync(after, p)
              /\ after = before
         /\ isFile(before, p) =>
              /\ isFile(after, p)
              /\ readFileSync(after, p).data = log[k].call.content
              /\ log[k].opens => log[k].ok

\* An edit of an absent file in an existing directory has been refused,
\* and an edit has replaced other content of an existing file.
C19_Witness ==
  /\ \E k \in 1..Len(log) :
       /\ Ran(k, "editFile")
       /\ ~existsSync(log[k].before, Resolved(log[k].call.path))
       /\ isDirectory(log[k].before, Dirname(Resolved(log[k].call.path)))
       /\ FailedNotFound(k)
  /\ \E k \in 1..Len(log) :
       /\ Ran(k, "editFile")
       /\ log[k].ok
       /\ isFile(log[k].before, Resolved(log[k].call.path))
       /\ log[k].before[Resolved(log[k].call.path)].content # log[k].call.content
       /\ log[k].after[Resolved(log[k].call.path)].content = log[k].call.content

\* The paths the k-th call resolves: its path, and its destination when
\* the operation takes two.
ResolvedPathsOf(k) ==
  IF log[k].call.op \in {"moveFile", "copyFile"}
    THEN {SourceOf(k), DestinationOf(k)}
    ELSE {SourceOf(k)}

\* q is the workspace folder or an entry in it.
InWorkspace(q) == Under(workspaceFolders[1], q)

(***************************************************************************)
(* C20.  No operation creates, modifies, moves or deletes an entry         *)
(* outside the workspace folder, whatever the path passed ('..' segments   *)
(* and '.' included): a call with a resolved path outside the workspace    *)
(* folder is rejected before it changes anything.                          *)
(***************************************************************************)
C20_Contained ==
  \A k \in 1..Len(log) :
    workspaceFolders # <<>> =>
      /\ \A q \in DOMAIN log[k].before \cup DOMAIN log[k].after :
           ~InWorkspace(q) =>
             /\ q \in DOMAIN log[k].before
             /\ q \in DOMAIN log[k].after
             /\ log[k].after[q] = log[k].before[q]
      /\ (\E q \in ResolvedPathsOf(k) : ~InWorkspace(q)) =>
           /\ ~log[k].ok
           /\ log[k].after = log[k].before

(***************************************************************************)
(* The commands of the extension (index.js): the handler of the            *)
(* 'executeActions' message with executeCodeAction, the comprehensive      *)
(* test of the file operations, and the check of the API status.           *)
(*                                                                         *)
(* A text shown to the user is the sequence of the parts its template      *)
(* string is made of; a path or a type interpolated in it is one part.     *)
(***************************************************************************)

\* The string made of the characters cs.
RECURSIVE Concat(_)
Concat(cs) == IF cs = <<>> THEN "" ELSE Head(cs) \o Concat(Tail(cs))

\* s.split(sep) for a one-character separator.
RECURSIVE SplitAt(_, _)
SplitAt(s, sep) ==
  LET at == {k \in 1..Len(s) : s[k] = sep}
  IN  IF at = {} THEN <<s>>
      ELSE <<SubSeq(s, 1, Min(at) - 1)>> \o SplitAt(SubSeq(s, Min(at) + 1, Len(s)), sep)

\* The segments path.join finds in the path string of an action.
PathSegments(path) ==
  LET parts == SplitAt(path, "/")
  IN [k \in 1..Len(parts) |-> Concat(parts[k])]

\* The operation executeCodeAction calls for each type of action.
OperationOf ==
  [CREATE_FILE |-> "createFile", CREATE_DIRECTORY |-> "createDirectory",
   DELETE_FILE |-> "deleteFile", DELETE_DIRECTORY |-> "deleteDirectory",
   MOVE_FILE |-> "moveFile", COPY_FILE |-> "copyFile", EDIT_FILE |-> "editFile"]

\* action.content || '' and action.sourcePath, action.destinationPath
\* (undefined when the action has no such field).
FieldOr(action, field, default) ==
  IF field \in DOMAIN action THEN action[field] ELSE default

\* The string of a path given as segments: the segments joined by "/".
RECURSIVE PathString(_)
PathString(segs) ==
  IF segs = <<>> THEN ""
  ELSE IF Len(segs) = 1 THEN segs[1]
  ELSE segs[1] \o "/" \o PathString(Tail(segs))

\* The text of the value an operation returns or of the error it throws,
\* for the path strings it was called with.  The error of a call of the fs
\* module is shown by its code.
ResultText(op, path, destinationPath, msg) ==
  IF msg = NoWorkspace THEN <<NoWorkspace>>
  ELSE IF msg = NotFound
    THEN IF op \in {"moveFile", "copyFile"} THEN <<"Source file ", path, " does not exist">>
         ELSE IF op \in {"deleteDirectory", "listDirectory"}
           THEN <<"Directory ", path, " does not exist">>
         ELSE <<"File ", path, " does not exist">>
  ELSE IF msg = "created successfully"
    THEN <<IF op = "createFile" THEN "File " ELSE "Directory ", path, " created successfully">>
  ELSE IF msg = "already exists" THEN <<"Directory ", path, " already exists">>
  ELSE IF msg = "deleted successfully"
    THEN <<IF op = "deleteFile" THEN "File " ELSE "Directory ", path, " deleted successfully">>
  ELSE IF msg = "moved" THEN <<"File moved from ", path, " to ", destinationPath>>
  ELSE IF msg = "copied" THEN <<"File copied from ", path, " to ", destinationPath>>
  ELSE <<msg>>

\* vscode.window.showInformationMessage / showErrorMessage / showWarningMessage
Notice(kind, text) == [kind |-> kind, text |-> text]

\* The call of the file operation executeCodeAction makes for an action,
\* with the result r of the operation on the file system fs.
OperationResult(fs, folders, action, opens) ==
  LET op == OperationOf[action.type]
      content == FieldOr(action, "content", <<>>)
  IN CASE op = "createFile" ->
            createFile(fs, folders, PathSegments(action.path), content, opens)
       [] op = "createDirectory" ->
            createDirectory(fs, folders, PathSegments(action.path))
       [] op = "deleteFile" -> deleteFile(fs, folders, PathSegments(action.path))
       [] op = "deleteDirectory" ->
            deleteDirectory(fs, folders, PathSegments(action.path))
       [] op = "moveFile" ->
            moveFile(fs, folders, PathSegments(action.sourcePath),
                     PathSegments(action.destinationPath))
       [] op = "copyFile" ->
            copyFile(fs, folders, PathSegments(action.sourcePath),
                     PathSegments(action.destinationPath))
       [] op = "editFile" ->
            editFile(fs, folders, PathSegments(action.path), content, opens)

\* What executeCodeAction does for one action: the operation it calls
\* ("none" when it calls none), the file system the operation leaves,
\* whether it succeeded, and the message shown to the user.  An error
\* thrown by the operation is caught and shown, not thrown again.
executeCodeAction(fs, folders, action, opens) ==
  LET sourcePath == FieldOr(action, "sourcePath", <<>>)
      destinationPath == FieldOr(action, "destinationPath", <<>>)
  IN IF action.type \notin DOMAIN OperationOf
       THEN [fs |-> fs, op |-> "none", ok |-> FALSE, msg |-> "unknown type",
             notice |-> Notice("error", <<"Unknown action type: ", action.type>>)]
     ELSE IF action.type \in {"MOVE_FILE", "COPY_FILE"}
               /\ (sourcePath = <<>> \/ destinationPath = <<>>)
       THEN [fs |-> fs, op |-> "none", ok |-> FALSE, msg |-> "paths required",
             notice |->
               Notice("error",
                      <<"Source and destination paths are required for ",
                        IF action.type = "MOVE_FILE" THEN "move" ELSE "copy",
                        " operation">>)]
     ELSE LET op == OperationOf[action.type]
              r == OperationResult(fs, folders, action, opens)
              text == ResultText(op,
                                 Concat(IF sourcePath = <<>> THEN action.path ELSE sourcePath),
                                 Concat(destinationPath), r.msg)
          IN [fs |-> r.fs, op |-> op, ok |-> r.ok, msg |-> r.msg,
              notice |->
                IF ~r.ok
                  THEN Notice("error", <<"Failed to execute action: ", "Error: ">> \o text)
                ELSE IF op = "editFile"
                  THEN Notice("info", <<"File ", Concat(action.path), " updated successfully">>)
                ELSE Notice("info", text)]

(***************************************************************************)
(* The language-model provider and the calls of its API                    *)
(* (aiService.ts, lines 25-50 and 733-914).                                *)
(***************************************************************************)

\* The outcome of fetch: a response with a status and the content of its
\* first choice, or a rejection with the message of the platform.
Answer(status, content) ==
  [reached |-> TRUE, status |-> status, content |-> content, error |-> ""]

NoAnswer(error) == [reached |-> FALSE, status |-> 0, content |-> <<>>, error |-> error]

\* The messages fetch rejects with when the provider cannot be reached.
FetchErrors == {"fetch failed", "Network request failed"}

\* The message of the error thrown inside callOpenRouterAPI, "" when the
\* request succeeded with content (lines 774-795).
ApiError(prov) ==
  IF ~prov.reached THEN prov.error
  ELSE IF prov.status = 402 THEN "API Credits Exhausted"
  ELSE IF prov.status = 429 THEN "API Rate Limit Exceeded"
  ELSE IF prov.status = 401 THEN "API Authentication Failed"
  ELSE IF prov.status # 200 THEN "API Request Failed"
  ELSE IF prov.content = <<>> THEN "No content received from API"
  ELSE ""

\* The errorType the catch of callOpenRouterAPI passes to getFallbackResponse
\* (lines 804-812).
FallbackType(error) ==
  IF error = "API Credits Exhausted" THEN "credits"
  ELSE IF error = "API Rate Limit Exceeded" THEN "rate_limit"
  ELSE IF error = "Network request failed" THEN "network"
  ELSE "general"

\* getFallbackResponse: prose about the connectivity issue, without any
\* marker; the text depends on the words of the prompt, and the default
\* text on the errorType.
getFallbackResponse(asksToCreate, errorType) ==
  IF asksToCreate
    THEN Join(<< <<"A", "P", "I", " ", "i", "s", "s", "u", "e", "s">>, <<>>,
                 <<"-", " ", "N", "e", "w", " ", "F", "i", "l", "e">> >>)
    ELSE Join(<< <<"A", "P", "I", " ", "i", "s", "s", "u", "e", "s">>,
                 IF errorType = "credits" THEN <<"c", "r", "e", "d", "i", "t", "s">>
                 ELSE IF errorType = "rate_limit" THEN <<"r", "a", "t", "e">>
                 ELSE IF errorType = "network" THEN <<"n", "e", "t">>
                 ELSE <<"g", "e", "n", "e", "r", "a", "l">> >>)

\* callOpenRouterAPI (lines 733-814): the content of the answer, or, for
\* every error, the fallback text as if it were the answer.
callOpenRouterAPI(prov, asksToCreate) ==
  IF ApiError(prov) = "" THEN [threw |-> FALSE, error |-> "", content |-> prov.content]
  ELSE [threw |-> FALSE, error |-> "",
        content |-> getFallbackResponse(asksToCreate, FallbackType(ApiError(prov)))]

\* The alternatives of the pattern of parseCodeActions (line 702), each with
\* the opening of its markers and with actionType.toLowerCase().
OpenRenameFile == <<"[", "R", "E", "N", "A", "M", "E", "_", "F", "I", "L", "E", ":">>

ChatMarkers ==
  << [open |-> OpenCreateFile, lower |-> "create_file"],
     [open |-> OpenEditFile, lower |-> "edit_file"],
     [open |-> OpenDeleteFile, lower |-> "delete_file"],
     [open |-> OpenRenameFile, lower |-> "rename_file"],
     [open |-> OpenCreateFolder, lower |-> "create_folder"] >>

\* actionRegex.exec(response) with lastIndex = from: the leftmost match at
\* or after from, with the alternative that matched and the index after
\* the match.
ExecFrom(text, from) ==
  LET hits == {h \in (from..Len(text)) \X DOMAIN ChatMarkers :
                 MatchFrom(text, h[1], HeaderRE(ChatMarkers[h[2]].open)).ok}
  IN IF hits = {} THEN [ok |-> FALSE, groups |-> <<>>, lower |-> "", lastIndex |-> from]
     ELSE LET h == CHOOSE x \in hits : \A y \in hits : x[1] <= y[1]
              m == MatchFrom(text, h[1], HeaderRE(ChatMarkers[h[2]].open))
          IN [ok |-> TRUE, groups |-> m.groups, lower |-> ChatMarkers[h[2]].lower,
              lastIndex |-> h[1] + Len(ChatMarkers[h[2]].open) + Len(m.groups[1])
                              + Len(m.groups[2]) + 2]

\* parseCodeActions (lines 700-715): every match of the pattern in the
\* whole text gives an action whose type is the lower-case name of the
\* marker; from is the lastIndex of the pattern, 1 at the call.
RECURSIVE parseCodeActions(_, _)
parseCodeActions(text, from) ==
  LET match == ExecFrom(text, from)
  IN IF ~match.ok THEN <<>>
     ELSE <<[type |-> match.lower, path |-> Trim(match.groups[1]),
             description |-> Trim(match.groups[2])]>>
          \o parseCodeActions(text, match.lastIndex)

\* chat (lines 25-50): the answer of the API with the actions found in it,
\* or, when something threw, a reply that tells of the trouble, without
\* actions; nothing is thrown to the caller.
chat(prov) ==
  LET called == callOpenRouterAPI(prov, FALSE)
  IN IF called.threw
       THEN [threw |-> FALSE, error |-> "", content |-> <<"t", "r", "o", "u", "b", "l", "e">>,
             confident |-> FALSE, actions |-> <<>>]
       ELSE [threw |-> FALSE, error |-> "", content |-> called.content, confident |-> TRUE,
             actions |-> parseCodeActions(called.content, 1)]

(***************************************************************************)
(* Inputs of the commands.                                                 *)
(***************************************************************************)

\* The largest number of action groups in the answer of the provider.
MaxActions == 2

\* The characters of the path strings d, f, d/f, d/e/f and ../o/f.
StrD == <<"d">>

StrF == <<"f">>

StrDF == <<"d", "/", "f">>

StrDEF == <<"d", "/", "e", "/", "f">>

StrOutside == <<".", ".", "/", "o", "/", "f">>

\* The groups of lines of an answer: one marker each, the CREATE_FILE
\* markers and one EDIT_FILE marker with a content block.
ActionGroups ==
  { <<Hdr(OpenCreateDirectory, StrD, DescD)>>,
    <<Hdr(OpenCreateFile, StrDF, DescD), OpenLine(StrDF), <<"x">>, CloseFileContent>>,
    <<Hdr(OpenCreateFile, StrOutside, DescD), OpenLine(StrOutside), <<"y">>, CloseFileContent>>,
    <<Hdr(OpenDeleteFile, StrF, DescD)>>,
    <<Hdr(OpenDeleteDirectory, StrD, DescD)>>,
    <<Hdr2(OpenMoveFile, StrF, StrDEF, DescD)>>,
    <<Hdr2(OpenCopyFile, StrDF, StrF, DescD)>>,
    <<Hdr(OpenEditFile, StrDF, DescD)>>,
    <<Hdr(OpenEditFile, StrF, DescD), OpenLine(StrF), <<"x">>, CloseFileContent>> }

\* The answers with actions: at least one group, at most MaxActions.
BatchTexts ==
  {Join(Flatten(gs)) : gs \in UNION {[1..k -> ActionGroups] : k \in 1..MaxActions}}

\* The failures of the provider.
Failures ==
  {Answer(402, <<>>), Answer(429, <<>>), Answer(401, <<>>), Answer(500, <<>>),
   Answer(200, <<>>)} \cup {NoAnswer(e) : e \in FetchErrors}

\* What the provider answers to the request for actions, and to 'Hello'.
ActionProviders == {Answer(200, t) : t \in BatchTexts} \cup Failures

ChatProviders == {Answer(200, <<"H", "i">>), Answer(200, <<"x">>)} \cup Failures

\* The largest number of 'executeAction' messages after an answer.
MaxClicks == 2

\* What the provider answers to a message of the chat: prose, and texts
\* with markers of the types the prompt and the parsers speak of.
ChatTexts ==
  { <<"H", "i">>,
    Hdr(OpenCreateFile, StrF, DescD),
    Join(<<<<"o", "k", " ">> \o Hdr(OpenEditFile, StrDF, DescD) \o <<" ">>
             \o Hdr(OpenDeleteFile, StrF, DescD),
           Hdr(OpenCreateFolder, StrD, DescD)>>),
    Hdr(OpenRenameFile, StrF, <<"g">>),
    Join(<<Hdr(OpenCreateDirectory, StrD, DescD), Hdr2(OpenMoveFile, StrF, StrDEF, DescD)>>),
    OpenCreateFile \o <<" ", "f", " ", ":", "d", "\n", "e", "]">> }

MessageProviders == {Answer(200, t) : t \in ChatTexts} \cup Failures

\* The names in the directory p: the regular files and the directories.
Listing(fs, p) ==
  LET children == {q \in DOMAIN fs : q # <<>> /\ Dirname(q) = p /\ q # p}
  IN [files |-> {q[Len(q)] : q \in {c \in children : ~isDirectory(fs, c)}},
      directories |-> {q[Len(q)] : q \in {c \in children : isDirectory(fs, c)}}]

\* aiService.ts, lines 205-238: the names of the files and directories in
\* a directory; nothing is changed.
listDirectory(fs, folders, dirPath) ==
  IF folders = <<>> THEN Throws(fs, NoWorkspace)
  ELSE LET fullPath == PathJoin(folders[1], dirPath)
       IN IF ~existsSync(fs, fullPath) THEN Throws(fs, NotFound)
          ELSE IF ~isDirectory(fs, fullPath) THEN Throws(fs, "ENOTDIR")
          ELSE Returns(fs, "listed")

\* The calls of the comprehensive test (index.js, lines 1147-1192), with
\* the contents it writes.
TestDir == <<"test-ai-dir">>

TestFile == <<"test-ai-dir", "test-file.js">>

TestCopy == <<"test-ai-dir", "test-file-copy.js">>

TestMoved == <<"test-ai-dir", "moved-file.js">>

fileContent == <<"t", "e", "s", "t", "\n">>

editContent == fileContent \o <<"\n", "m", "\n">>

TestScript ==
  << Call("createDirectory", TestDir, <<>>),
     Call("createFile", TestFile, fileContent),
     Call("listDirectory", TestDir, <<>>),
     Call2("copyFile", TestFile, TestCopy),
     Call("editFile", TestFile, editContent),
     Call2("moveFile", TestCopy, TestMoved),
     Call("deleteFile", TestMoved, <<>>),
     Call("deleteDirectory", TestDir, <<>>) >>

\* The file systems the comprehensive test starts from: without
\* test-ai-dir, with a directory of that name that holds a file, and with
\* a regular file of that name.
TestDisks ==
  Disks \cup
    { Tree(EmptyDirs \cup {WorkspaceRoot \o TestDir},
           (WorkspaceRoot \o TestDir \o <<"kept">> :> <<"k">>)
             @@ (WorkspaceRoot \o <<"f">> :> <<"a">>)),
      Tree(EmptyDirs, (WorkspaceRoot \o TestDir :> <<"k">>)) }

\* The result of a call of a file operation.
CallResult(fs, folders, call, opens) ==
  CASE call.op = "createFile" -> createFile(fs, folders, call.path, call.content, opens)
    [] call.op = "createDirectory" -> createDirectory(fs, folders, call.path)
    [] call.op = "listDirectory" -> listDirectory(fs, folders, call.path)
    [] call.op = "deleteFile" -> deleteFile(fs, folders, call.path)
    [] call.op = "deleteDirectory" -> deleteDirectory(fs, folders, call.path)
    [] call.op = "moveFile" -> moveFile(fs, folders, call.path, call.destinationPath)
    [] call.op = "copyFile" -> copyFile(fs, folders, call.path, call.destinationPath)
    [] call.op = "editFile" -> editFile(fs, folders, call.path, call.content, opens)

\* The outcomes of opening a file in the editor that make a difference to
\* an operation: only createFile and editFile open the file.
Openings(op) == IF op \in {"createFile", "editFile"} THEN BOOLEAN ELSE {TRUE}

(***************************************************************************)
(* The commands as a state machine.  The 'executeActions' handler asks     *)
(* the provider for actions, parses the answer with the steps of the       *)
(* parser above, then runs executeCodeAction for each action and posts     *)
(* the result to the webview.                                              *)
(***************************************************************************)

\* The 'executeActions' message arrives: suggestCodeActions has the answer
\* of callOpenRouterAPI (aiService.ts, line 585) and is about to parse it.
ExecuteActionsInit ==
  /\ command = "executeActions"
  /\ provider \in ActionProviders
  /\ workspaceFolders \in FolderLists
  /\ disk \in Disks
  /\ script = <<>>
  /\ response = callOpenRouterAPI(provider, TRUE).content
  /\ pc = "start"

\* The comprehensive test is invoked.
ComprehensiveTestInit ==
  /\ command = "comprehensiveTest"
  /\ provider = NoAnswer("none")
  /\ workspaceFolders \in FolderLists
  /\ disk \in TestDisks
  /\ script = TestScript
  /\ response = <<>>
  /\ pc = "test"

\* A 'sendMessage' message arrives from the webview.
SendMessageInit ==
  /\ command = "sendMessage"
  /\ provider \in MessageProviders
  /\ workspaceFolders \in FolderLists
  /\ disk \in {DiskFull, DiskFileD}
  /\ script = <<>>
  /\ response = <<>>
  /\ pc = "message"

\* The check of the API status is invoked.
CheckAPIStatusInit ==
  /\ command = "checkAPIStatus"
  /\ provider \in ChatProviders
  /\ workspaceFolders \in FolderLists
  /\ disk = Tree(EmptyDirs, <<>>)
  /\ script = <<>>
  /\ response = <<>>
  /\ pc = "status"

AppInit ==
  /\ \/ ExecuteActionsInit
     \/ ComprehensiveTestInit
     \/ CheckAPIStatusInit
     \/ SendMessageInit
  /\ lines = <<>>
  /\ i = 1
  /\ actions = <<>>
  /\ currentContent = <<>>
  /\ currentFilePath = <<>>
  /\ result = <<>>
  /\ made = 0
  /\ log = <<>>
  /\ notices = <<>>
  /\ posted = <<>>
  /\ events = <<>>
  /\ IntentIdle

\* The actions whose operation has been started, and those among them
\* whose operation has not completed yet.
Started == {e.k : e \in {f \in {events[j] : j \in DOMAIN events} : f.ev = "start"}}

Ended == {e.k : e \in {f \in {events[j] : j \in DOMAIN events} : f.ev = "end"}}

InFlight == Started \ Ended

\* The loop calls executeCodeAction for the next action without waiting
\* for the call before it.
Awaited_FireAndForget == TRUE

\* index.js, line 1741: await executeCodeAction(action, aiService).  The
\* loop goes on when the call before has completed.
Awaited == InFlight = {}

\* index.js, line 1739: for (const action of actions), one action after
\* the other in the order of the list.
NextIndex == Cardinality(Started) + 1

\* The file system is put back as it was before the batch when an action
\* fails.
DiskAfter_RolledBack(x) ==
  IF x.ok \/ log = <<>> THEN x.fs ELSE log[1].before

\* index.js, lines 1862-1865: the catch of executeCodeAction shows the
\* error; the file system stays as the operation left it.
DiskAfter(x) == x.fs

\* index.js, line 1741 with lines 1801-1861: executeCodeAction is called
\* for the next action; its file operation runs.
BeginAction ==
  /\ command = "executeActions"
  /\ pc = "done"
  /\ Awaited
  /\ NextIndex <= Len(result)
  /\ \E opens \in Openings(OperationOf[result[NextIndex].type]) :
       LET x == executeCodeAction(disk, workspaceFolders, result[NextIndex], opens)
       IN /\ disk' = DiskAfter(x)
          /\ log' = Append(log, [k |-> NextIndex, action |-> result[NextIndex],
                                 op |-> x.op, opens |-> opens, before |-> disk,
                                 after |-> x.fs, ok |-> x.ok, msg |-> x.msg,
                                 notice |-> x.notice])
  /\ events' = Append(events, [ev |-> "start", k |-> NextIndex])
  /\ UNCHANGED <<workspaceFolders, script, made>>
  /\ UNCHANGED parserVars
  /\ UNCHANGED <<command, provider, notices, posted>>
  /\ UNCHANGED intentVars

\* The last entry of the log for action k.
LastLogOf(k) ==
  log[CHOOSE j \in DOMAIN log :
        log[j].k = k /\ \A m \in DOMAIN log : log[m].k = k => m <= j]

\* index.js, lines 1812-1865: the call of executeCodeAction for action k
\* completes: the result or the error of the operation is shown.
SettleAction ==
  /\ command = "executeActions"
  /\ \E k \in InFlight :
       /\ notices' = Append(notices, LastLogOf(k).notice)
       /\ events' = Append(events, [ev |-> "end", k |-> k])
  /\ made' = made + 1
  /\ UNCHANGED <<workspaceFolders, disk, script, log>>
  /\ UNCHANGED parserVars
  /\ UNCHANGED <<command, provider, posted>>
  /\ UNCHANGED intentVars

\* A message posted to the webview.
ActionsExecuted(success, count, error) ==
  [type |-> "actionsExecuted", success |-> success, count |-> count, error |-> error]

\* index.js, lines 1738-1760: after the loop the success is posted with
\* the number of actions; without any action the error is posted.
PostResult ==
  /\ command = "executeActions"
  /\ pc = "done"
  /\ Awaited
  /\ NextIndex > Len(result)
  /\ posted' = Append(posted,
                      IF Len(result) > 0 THEN ActionsExecuted(TRUE, Len(result), "")
                      ELSE ActionsExecuted(FALSE, 0, "No actions found to execute"))
  /\ pc' = "posted"
  /\ UNCHANGED <<response, lines, i, actions, currentContent, currentFilePath, result>>
  /\ UNCHANGED execVars
  /\ UNCHANGED <<command, provider, notices, events>>
  /\ UNCHANGED intentVars

\* index.js, lines 1137-1141: without a workspace folder the test shows
\* the error and returns.
TestRefused ==
  /\ command = "comprehensiveTest"
  /\ pc = "test"
  /\ workspaceFolders = <<>>
  /\ notices' = Append(notices, Notice("error", <<NoWorkspace>>))
  /\ pc' = "tested"
  /\ UNCHANGED <<response, lines, i, actions, currentContent, currentFilePath, result>>
  /\ UNCHANGED execVars
  /\ UNCHANGED <<command, provider, posted, events>>
  /\ UNCHANGED intentVars

\* index.js, lines 1145-1193 and 1199-1202: the next call of the test is
\* made and awaited; when it throws, the failure is shown and the test
\* is over.
TestStep ==
  /\ command = "comprehensiveTest"
  /\ pc = "test"
  /\ workspaceFolders # <<>>
  /\ made < Len(script)
  /\ \E opens \in Openings(script[made + 1].op) :
       LET call == script[made + 1]
           r == CallResult(disk, workspaceFolders, call, opens)
       IN /\ disk' = r.fs
          /\ log' = Append(log, [call |-> call, opens |-> opens, before |-> disk,
                                 after |-> r.fs, ok |-> r.ok, msg |-> r.msg])
          /\ notices' =
               IF r.ok THEN notices
               ELSE Append(notices,
                           Notice("error",
                                  <<"Comprehensive test failed: ", "Error: ">>
                                    \o ResultText(call.op, PathString(call.path),
                                                  PathString(call.destinationPath),
                                                  r.msg)))
          /\ pc' = IF r.ok THEN "test" ELSE "tested"
  /\ made' = made + 1
  /\ UNCHANGED <<workspaceFolders, script>>
  /\ UNCHANGED <<response, lines, i, actions, currentContent, currentFilePath, result>>
  /\ UNCHANGED <<command, provider, posted, events>>
  /\ UNCHANGED intentVars

\* index.js, lines 1195-1197: after the last call the summary is shown.
TestReport ==
  /\ command = "comprehensiveTest"
  /\ pc = "test"
  /\ workspaceFolders # <<>>
  /\ made = Len(script)
  /\ notices' = Append(notices, Notice("info", <<"Comprehensive test completed!">>))
  /\ pc' = "tested"
  /\ UNCHANGED <<response, lines, i, actions, currentContent, currentFilePath, result>>
  /\ UNCHANGED execVars
  /\ UNCHANGED <<command, provider, posted, events>>
  /\ UNCHANGED intentVars

\* The message the check shows for an error thrown by chat
\* (index.js, lines 1531-1576).
StatusFailure(error) ==
  IF error = "API Credits Exhausted" THEN Notice("error", <<"API Credits Exhausted">>)
  ELSE IF error = "API Rate Limit Exceeded"
    THEN Notice("warning", <<"API Rate Limit Exceeded">>)
  ELSE Notice("error", <<"API Connection Issue", error>>)

\* index.js, lines 1518-1577: the check calls chat('Hello') and shows
\* that the API works when chat returns, the failure when chat throws.
CheckAPIStatus ==
  /\ command = "checkAPIStatus"
  /\ pc = "status"
  /\ LET testResponse == chat(provider)
     IN notices' =
          notices \o <<Notice("info", <<"Checking API status...">>),
                       IF testResponse.threw THEN StatusFailure(testResponse.error)
                       ELSE Notice("info", <<"API is working correctly">>)>>
  /\ pc' = "checked"
  /\ UNCHANGED <<response, lines, i, actions, currentContent, currentFilePath, result>>
  /\ UNCHANGED execVars
  /\ UNCHANGED <<command, provider, posted, events>>
  /\ UNCHANGED intentVars

\* Messages posted to the webview by the handlers of 'sendMessage' and
\* 'executeAction'.
AddMessage(text, acts) == [type |-> "addMessage", text |-> text, actions |-> acts]

ActionExecuted(success, action) ==
  [type |-> "actionExecuted", success |-> success, action |-> action]

\* index.js, lines 1626-1680: the typing indicator is shown, chat gets the
\* answer, the indicator is hidden and the answer is posted with the
\* actions chat found in it.  chat does not throw.
SendMessage ==
  /\ command = "sendMessage"
  /\ pc = "message"
  /\ LET answer == chat(provider)
     IN posted' = posted \o <<[type |-> "showTyping"], [type |-> "hideTyping"],
                              AddMessage(answer.content, answer.actions)>>
  /\ pc' = "answered"
  /\ UNCHANGED <<response, lines, i, actions, currentContent, currentFilePath, result>>
  /\ UNCHANGED execVars
  /\ UNCHANGED <<command, provider, notices, events>>
  /\ UNCHANGED intentVars

\* The actions of the answer posted to the webview.
OfferedActions ==
  LET answers == {m \in DOMAIN posted : posted[m].type = "addMessage"}
  IN IF answers = {} THEN <<>> ELSE posted[Max(answers)].actions

\* index.js, lines 1681-1697: an 'executeAction' message arrives with one
\* of the actions of the answer; executeCodeAction runs it and shows the
\* outcome, and the success is posted.
ExecuteAction ==
  /\ command = "sendMessage"
  /\ pc = "answered"
  /\ made < MaxClicks
  /\ \E k \in DOMAIN OfferedActions :
       \E opens \in BOOLEAN :
         LET action == OfferedActions[k]
             x == executeCodeAction(disk, workspaceFolders, action, opens)
         IN /\ disk' = x.fs
            /\ log' = Append(log, [k |-> k, action |-> action, op |-> x.op,
                                   opens |-> opens, before |-> disk, after |-> x.fs,
                                   ok |-> x.ok, msg |-> x.msg, notice |-> x.notice])
            /\ notices' = Append(notices, x.notice)
            /\ posted' = Append(posted, ActionExecuted(TRUE, action))
  /\ made' = made + 1
  /\ UNCHANGED <<workspaceFolders, script>>
  /\ UNCHANGED parserVars
  /\ UNCHANGED <<command, provider, events>>
  /\ UNCHANGED intentVars

AppNext ==
  \/ SplitResponse
  \/ ParseLine
  \/ Return
  \/ BeginAction
  \/ SettleAction
  \/ PostResult
  \/ TestRefused
  \/ TestStep
  \/ TestReport
  \/ CheckAPIStatus
  \/ SendMessage
  \/ ExecuteAction

AppSpec == AppInit /\ [][AppNext]_vars

(***************************************************************************)
(* Vocabulary of the properties of the commands.                           *)
(***************************************************************************)

\* The handler of 'executeActions' has the actions of the parser and runs
\* them, or has posted its result.
Executing == command = "executeActions" /\ pc \in {"done", "posted"}

\* What is left to do for the handler: two events for each action, and
\* the post.
StepsLeft == 2 * Len(result) + (IF pc = "posted" THEN 0 ELSE 1) - Len(events)

(***************************************************************************)
(* C21.  The batch handler executes every action the parser emitted        *)
(* exactly once, in the order emitted, and strictly one after the other:   *)
(* the operation of action k + 1 starts only after the operation of        *)
(* action k has completed, with success or with an error.  The starts and  *)
(* ends of the operations are start 1, end 1, start 2, end 2, ..., the     *)
(* k-th operation run is the operation of the k-th action, every step of   *)
(* the handler brings it nearer to its end, and when the result is posted  *)
(* every action has been started and ended.                                *)
(***************************************************************************)
C21_Sequential ==
  /\ [](Executing =>
          /\ \A j \in DOMAIN events :
               events[j] = [ev |-> IF j % 2 = 1 THEN "start" ELSE "end",
                            k |-> (j + 1) \div 2]
          /\ Len(events) <= 2 * Len(result)
          /\ Len(log) = (Len(events) + 1) \div 2
          /\ \A j \in DOMAIN log :
               /\ log[j].k = j
               /\ log[j].action = result[j]
               /\ log[j].op = OperationOf[result[j].type]
          /\ pc = "posted" => Len(events) = 2 * Len(result))
  /\ [][command = "executeActions" /\ pc = "done" =>
          /\ StepsLeft' < StepsLeft
          /\ result' = result]_vars

\* Two actions have been run and the result posted; the first action
\* failed and the second succeeded after it.
C21_Witness ==
  /\ Executing
  /\ pc = "posted"
  /\ Len(result) = 2
  /\ events = << [ev |-> "start", k |-> 1], [ev |-> "end", k |-> 1],
                 [ev |-> "start", k |-> 2], [ev |-> "end", k |-> 2] >>
  /\ ~log[1].ok
  /\ log[2].ok
  /\ log[2].after # log[2].before

\* The entries of the log for action k: the attempts to run it.
AttemptsOf(k) == {j \in DOMAIN log : log[j].k = k}

(***************************************************************************)
(* C22.  There is no rollback and no retry in a batch: every operation     *)
(* starts from the file system the operation before it left, the file      *)
(* system after an operation, failed or not, is the one that operation     *)
(* left, so that what the actions before a failed action did is still in   *)
(* place after the failure, and a failed action is attempted exactly once. *)
(***************************************************************************)
C22_NoRollbackNoRetry ==
  Executing =>
    /\ \A j \in DOMAIN log : j > 1 => log[j].before = log[j - 1].after
    /\ log # <<>> => disk = log[Len(log)].after
    /\ \A j \in DOMAIN log :
         ~log[j].ok =>
           /\ Cardinality(AttemptsOf(log[j].k)) = 1
           /\ log[j].msg \in {NotFound, NoWorkspace} => log[j].after = log[j].before
           /\ pc = "posted" => Cardinality({e \in DOMAIN events :
                                              events[e] = [ev |-> "start", k |-> log[j].k]}) = 1

\* The first action of a batch changed the file system, the second failed
\* without changing anything, and after the batch the file system is as
\* the first action left it.
C22_Witness ==
  /\ Executing
  /\ pc = "posted"
  /\ Len(log) = 2
  /\ log[1].ok
  /\ log[1].after # log[1].before
  /\ ~log[2].ok
  /\ disk = log[1].after

\* The precondition of the k-th call: something exists at the path an
\* operation other than createFile and createDirectory is given.
PreconditionHeld(k) ==
  log[k].call.op \in {"createFile", "createDirectory"}
    \/ existsSync(log[k].before, SourceOf(k))

\* The mutation of the k-th call has been carried out: what the operation
\* is for is the case in the file system it left.
MutationDone(k) ==
  LET op == log[k].call.op
      p == SourceOf(k)
      after == log[k].after
  IN CASE op = "createFile" ->
            isFile(after, p) /\ after[p].content = log[k].call.content
       [] op = "createDirectory" ->
            /\ isDirectory(after, p)
            /\ log[k].msg = "already exists" =>
                 isDirectory(log[k].before, p) /\ after = log[k].before
       [] op \in {"deleteFile", "deleteDirectory"} -> ~existsSync(after, p)
       [] op = "moveFile" ->
            /\ DestinationHoldsSource(k)
            /\ p # DestinationOf(k) => ~existsSync(after, p)
       [] op = "copyFile" ->
            /\ isFile(after, DestinationOf(k))
            /\ after[DestinationOf(k)] = log[k].before[p]
       [] op = "editFile" -> isFile(after, p) /\ after[p].content = log[k].call.content

(***************************************************************************)
(* C23.  Each file operation (createFile, createDirectory, deleteFile,     *)
(* deleteDirectory, moveFile, copyFile, editFile) throws to its caller     *)
(* whenever its precondition is violated or a step on the file system      *)
(* fails: it returns a success only if its precondition held and its       *)
(* mutation was carried out or, for createDirectory, was not needed        *)
(* because the directory existed.                                          *)
(***************************************************************************)
C23_ThrowsOrDone ==
  \A k \in 1..Len(log) :
    workspaceFolders # <<>> =>
      /\ ~PreconditionHeld(k) => ~log[k].ok
      /\ log[k].ok => PreconditionHeld(k) /\ MutationDone(k)

\* The parts of a text.
Parts(text) == {text[j] : j \in DOMAIN text}

\* The message shown for the failure of the j-th operation of a batch:
\* operations complete in order, so it is the j-th message.
FailureShown(j) ==
  /\ j \in DOMAIN notices
  /\ notices[j] = log[j].notice
  /\ notices[j].kind = "error"

(***************************************************************************)
(* C24.  Errors of the executor are never silently suppressed: whenever    *)
(* the execution of an action has failed, a failure has been shown to the  *)
(* user, and the text shown names both the type of the action and its      *)
(* path.                                                                   *)
(***************************************************************************)
C24_FailureNamesTypeAndPath ==
  Executing =>
    \A j \in DOMAIN log :
      ~log[j].ok /\ j \in Ended =>
        /\ FailureShown(j)
        /\ log[j].action.type \in Parts(notices[j].text)
        /\ Concat(log[j].action.path) \in Parts(notices[j].text)

\* The comprehensive test runs or is over, in a workspace folder.
Testing == command = "comprehensiveTest" /\ workspaceFolders # <<>>

\* The file system the comprehensive test started from.
TestStart == IF log = <<>> THEN disk ELSE log[1].before

\* The editor opened every file the calls made so far asked it to open.
EditorOpened == \A k \in DOMAIN log : log[k].opens

Shown == {notices[j] : j \in DOMAIN notices}

(***************************************************************************)
(* C26.  'Check API Status' tells the truth about the provider: it shows   *)
(* 'API is working correctly' only if the request to the provider          *)
(* succeeded, and when the request fails (402 credits exhausted, 429 rate  *)
(* limit, 401 authentication, network error) it shows the corresponding    *)
(* error or warning instead.                                               *)
(***************************************************************************)
C26_StatusIsTruthful ==
  command = "checkAPIStatus" /\ pc = "checked" =>
    /\ Notice("info", <<"API is working correctly">>) \in Shown
         => ApiError(provider) = ""
    /\ ApiError(provider) # "" => StatusFailure(ApiError(provider)) \in Shown


(***************************************************************************)
(* Vocabulary of the properties of a single line.                          *)
(***************************************************************************)
\* The header pattern of rank r in the priority order matches line.
RankMatches(r, line) ==
  Match(line, IF Priority[r].paths = 1 THEN HeaderRE(Priority[r].open)
              ELSE TwoPathRE(Priority[r].open)).ok

\* The ranks whose header pattern matches line.
Ranks(line) == {r \in 1..Len(Priority) : RankMatches(r, line)}

\* The line holds a content-block marker somewhere.
HoldsBlockMarker(line) == fileContentStart(line).ok \/ fileContentEnd(line).ok

(***************************************************************************)
(* C27.  Each line emits at most one action.  The header patterns are      *)
(* tried in the priority order create-file, create-directory,              *)
(* create-folder (alias), delete-file, delete-directory, move-file,        *)
(* copy-file, edit-file: the first one that matches emits exactly one      *)
(* action, of that type, with no content bound to it, after the actions    *)
(* emitted before, and the line is then not examined for an opening or a   *)
(* closing content-block marker: the open block, its buffer and the        *)
(* contents bound earlier stay as they are.                                *)
(***************************************************************************)
C27_OneActionByPriority ==
  [][ AtLine =>
        /\ Len(actions') <= Len(actions) + 1
        /\ Ranks(lines[i]) # {} =>
             /\ Len(actions') = Len(actions) + 1
             /\ SubSeq(actions', 1, Len(actions)) = actions
             /\ actions'[Len(actions')].type = Priority[Min(Ranks(lines[i]))].type
             /\ "content" \notin DOMAIN actions'[Len(actions')]
             /\ currentFilePath' = currentFilePath
             /\ currentContent' = currentContent ]_vars

\* Inside an open block, a line that the edit-file and the create-file
\* patterns both match has emitted its CREATE_FILE action; and a line with
\* a closing block marker before its header marker has left the block open.
C27_Witness ==
  /\ pc = "loop"
  /\ i > 1
  /\ currentFilePath # <<>>
  /\ actions # <<>>
  /\ \/ /\ Ranks(lines[i - 1]) = {1, 8}
        /\ actions[Len(actions)].type = "CREATE_FILE"
        /\ ~HoldsBlockMarker(lines[i - 1])
     \/ /\ Ranks(lines[i - 1]) # {}
        /\ fileContentEnd(lines[i - 1]).ok


\* The complete markers of line: where they start, and their rank.
CompleteMarkers(line) ==
  {m \in (1..Len(line)) \X (1..Len(Priority)) :
     m[1] \in Occurrences(m[2], line) /\ WellFormedAt(m[2], line, m[1])}

\* The closing bracket of the first complete marker of line.
FirstClose(line) ==
  LET s == Min({m[1] : m \in CompleteMarkers(line)})
  IN Min({k \in s..Len(line) : line[k] = "]"})

\* The line up to the closing bracket of its first complete marker.
UpToFirstClose(line) == SubSeq(line, 1, FirstClose(line))

(***************************************************************************)
(* C28.  Text after the closing bracket of a complete marker is never      *)
(* parsed as another marker: a line with a complete marker emits what the  *)
(* line cut after that marker's closing bracket emits, and no action       *)
(* comes from marker text that follows the bracket on the same line.       *)
(***************************************************************************)
C28_TrailingTextNotParsed ==
  [][ AtLine /\ CompleteMarkers(lines[i]) # {} =>
        actions' = actions \o Pushed(UpToFirstClose(lines[i])) ]_vars


\* The contents bound to the actions emitted so far.
BoundContents(acts) ==
  {acts[k].content : k \in {j \in DOMAIN acts : "content" \in DOMAIN acts[j]}}

\* The lines of a bound content.
ContentLines(content) == {Split(content)[k] : k \in DOMAIN Split(content)}

(***************************************************************************)
(* C29.  A line that matches a header marker is never treated as content:  *)
(* while a content block is open the line still emits its action and is    *)
(* not appended to the buffer, so no content bound to an action contains   *)
(* a line that matched a header marker.                                    *)
(***************************************************************************)
C29_HeaderNeverContent ==
  /\ [][ AtLine /\ currentFilePath # <<>> /\ Ranks(lines[i]) # {} =>
           /\ Len(actions') = Len(actions) + 1
           /\ currentContent' = currentContent
           /\ currentFilePath' = currentFilePath ]_vars
  /\ [](\A c \in BoundContents(actions) : \A l \in ContentLines(c) : Ranks(l) = {})

\* The block of a holds a DELETE_FILE marker line and the line x: the
\* marker has emitted its action and x alone is the content of a.
C29_Witness ==
  /\ pc = "done"
  /\ Len(result) = 2
  /\ result[1].type = "CREATE_FILE"
  /\ "content" \in DOMAIN result[1]
  /\ result[1].content = <<"x">>
  /\ result[2].type = "DELETE_FILE"
  /\ \E k \in 2..(Len(lines) - 2) :
       /\ fileContentStart(lines[k]).ok
       /\ lines[k + 1] = Hdr(OpenDeleteFile, PathB, DescD)
       /\ lines[k + 2] = <<"x">>


\* The last opening content-block marker among the lines processed so far.
LastOpen == Max({k \in 1..(i - 1) : IsOpenLine(lines[k])})

\* What the lines ls add to the buffer of an open block.
RECURSIVE BufferOf(_)
BufferOf(ls) ==
  IF ls = <<>> THEN <<>>
  ELSE (IF IsProseLine(Head(ls)) /\ Trim(Head(ls)) # <<>>
          THEN Head(ls) \o <<"\n">> ELSE <<>>) \o BufferOf(Tail(ls))

(***************************************************************************)
(* C30.  At most one content block is open at a time.  An opening marker   *)
(* [FILE_CONTENT:q] met while the block of p is open replaces the path of  *)
(* the open block by q and resets the buffer, no action changing; the      *)
(* open block is the one of the last opening marker and its buffer holds   *)
(* only lines that follow that marker, so the text buffered for p is       *)
(* never bound to any action.                                              *)
(***************************************************************************)
C30_ReopenDiscards ==
  /\ [][ AtLine /\ currentFilePath # <<>> /\ IsOpenLine(lines[i]) =>
           /\ currentFilePath' = fileContentStart(lines[i]).groups[1]
           /\ currentContent' = <<>>
           /\ actions' = actions ]_vars
  /\ [](pc = "loop" /\ currentFilePath # <<>> =>
          /\ \E k \in 1..(i - 1) : IsOpenLine(lines[k])
          /\ currentFilePath = fileContentStart(lines[LastOpen]).groups[1]
          /\ currentContent = BufferOf(SubSeq(lines, LastOpen + 1, i - 1)))

\* The block of b, with the line y in its buffer, was open when the
\* marker of the block of a came: a is bound to x, and y to nothing.
C30_Witness ==
  /\ pc = "done"
  /\ lines = <<Hdr(OpenCreateFile, PathA, DescD), OpenLine(PathB), <<"y">>,
               OpenLine(PathA), <<" ", "x", " ">>, CloseFileContent>>
  /\ result = <<[type |-> "CREATE_FILE", path |-> PathA, description |-> DescD,
                 content |-> <<"x">>]>>


\* The actions emitted so far that the step changes.
Changed == {k \in DOMAIN actions : k \in DOMAIN actions' /\ actions'[k] # actions[k]}

(***************************************************************************)
(* C31.  An action is immutable once emitted: after the line that emitted  *)
(* it, its type, path, description, sourcePath and destinationPath never   *)
(* change, and it is never removed or reordered (it keeps its place in     *)
(* the list, and the list returned is the list built).  The only later     *)
(* change is to the content of a CREATE_FILE action, and it happens only   *)
(* when a closing content-block marker is processed.                       *)
(***************************************************************************)
C31_Immutable ==
  /\ [][ /\ Len(actions') >= Len(actions)
         /\ \A k \in DOMAIN actions : Header(actions'[k]) = Header(actions[k])
         /\ \A k \in Changed :
              /\ actions[k].type = "CREATE_FILE"
              /\ AtLine
              /\ IsCloseLine(lines[i])
         /\ pc' = "done" /\ pc # "done" => result' = actions ]_vars
  /\ [](pc = "done" => result = actions)

\* A closing marker has bound the content of the first of three actions
\* after all three were emitted; the MOVE_FILE and the DELETE_FILE action
\* are as they were emitted.
C31_Witness ==
  /\ pc = "done"
  /\ Len(result) = 3
  /\ result[1] = [type |-> "CREATE_FILE", path |-> PathA, description |-> DescD,
                  content |-> <<"x">>]
  /\ result[2] = [type |-> "MOVE_FILE", sourcePath |-> PathA, destinationPath |-> PathB,
                  path |-> PathA, description |-> DescD]
  /\ result[3] = [type |-> "DELETE_FILE", path |-> PathB, description |-> DescD]
  /\ IsCloseLine(lines[Len(lines)])


(***************************************************************************)
(* Repeated parses.  Every call of suggestCodeActions parses with its own  *)
(* actions, lines, currentContent and currentFilePath (lines 588-591).     *)
(* The loop (lines 593-690) holds no await, so the parses of calls that    *)
(* run concurrently take place one after another, in any order; log keeps  *)
(* what each finished parse was given, what it returned and what it left   *)
(* in its variables.                                                       *)
(***************************************************************************)
\* The largest number of parses in a row.
MaxParses == 3

\* The texts parsed in a row: a block of b left open with y in its buffer,
\* blocks and closing markers that would bind what an earlier parse left,
\* and prose.
ParseTexts ==
  { Join(<<OpenLine(PathB), <<"y">>>>),
    Join(<<Hdr(OpenCreateFile, PathB, DescD), <<"x">>, CloseFileContent>>),
    Join(<<Hdr(OpenCreateFile, PathA, DescD), OpenLine(PathA), <<"x">>, CloseFileContent>>),
    Join(<<Hdr(OpenCreateFile, PathB, DescD), OpenLine(PathB)>>),
    Join(<<Hdr(OpenEditFile, PathA, DescD), CloseFileContent>>),
    Join(<<<<"h", "i">>>>) }

ReparseInit ==
  /\ response \in ParseTexts
  /\ lines = <<>>
  /\ i = 1
  /\ actions = <<>>
  /\ currentContent = <<>>
  /\ currentFilePath = <<>>
  /\ pc = "start"
  /\ result = <<>>
  /\ ExecIdle
  /\ HandlerIdle
  /\ IntentIdle

\* A parse has returned and suggestCodeActions is called again, with any
\* text.
ParseAgain ==
  /\ pc = "done"
  /\ Len(log) < MaxParses - 1
  /\ log' = Append(log, [response |-> response, result |-> result,
                         currentFilePath |-> currentFilePath,
                         currentContent |-> currentContent])
  /\ response' \in ParseTexts
  /\ pc' = "start"
  /\ UNCHANGED <<lines, i, actions, currentContent, currentFilePath, result>>
  /\ UNCHANGED <<workspaceFolders, disk, script, made>>
  /\ UNCHANGED handlerVars
  /\ UNCHANGED intentVars

ReparseNext == SplitResponse \/ ParseLine \/ Return \/ ParseAgain

ReparseSpec == ReparseInit /\ [][ReparseNext]_vars

(***************************************************************************)
(* C32.  Parsing is pure and deterministic: two parses of the same text    *)
(* return equal action lists, and nothing is carried from one parse to     *)
(* the next: a content block that a parse left open at its end has no      *)
(* effect on what a later parse, or one of a concurrently running call,    *)
(* returns.                                                                *)
(***************************************************************************)
C32_Deterministic ==
  /\ pc = "done" =>
       \A k \in DOMAIN log : log[k].response = response => log[k].result = result
  /\ pc = "loop" /\ i = 1 => actions = <<>> /\ currentContent = <<>> /\ currentFilePath = <<>>

\* The text with a CREATE_FILE marker of b, a line and a closing marker is
\* parsed twice, with a parse in between that left the block of b open
\* with y in its buffer: both times the action of b has no content.
C32_Witness ==
  /\ pc = "done"
  /\ Len(log) = 2
  /\ log[1].response = response
  /\ log[2].currentFilePath = PathB
  /\ log[2].currentContent = <<"y", "\n">>
  /\ response = Join(<<Hdr(OpenCreateFile, PathB, DescD), <<"x">>, CloseFileContent>>)
  /\ result = <<[type |-> "CREATE_FILE", path |-> PathB, description |-> DescD]>>
  /\ log[1].result = result


(***************************************************************************)
(* Overlapping batches.  The handler of the webview messages (index.js,    *)
(* lines 1624-1763) is an async function: a second 'executeActions' or     *)
(* 'executeAction' message is handled while the handler of the first is    *)
(* suspended at an await.  The extension host runs one task at a time:     *)
(* a handler runs until it awaits something that completes in a later      *)
(* task, which among the file operations is showTextDocument in            *)
(* createFile and editFile only; the await of an operation that has not    *)
(* suspended goes on within the same task.                                 *)
(*                                                                         *)
(* script holds the action lists of the two handlers, events the starts    *)
(* and ends of the operations and the posts, log one record for each       *)
(* operation started.                                                      *)
(***************************************************************************)
\* The actions of the batches, as the parser returns them.
CreateOf(path, content) ==
  [type |-> "CREATE_FILE", path |-> path, description |-> DescD, content |-> content]

DeleteOf(path) == [type |-> "DELETE_FILE", path |-> path, description |-> DescD]

EditOf(path) == [type |-> "EDIT_FILE", path |-> path, description |-> DescD]

\* The first batches and the second batches: both write f and d/f, in
\* opposite orders; a single action stands for an 'executeAction' message.
FirstBatches ==
  { <<CreateOf(StrF, <<"x">>), CreateOf(StrDF, <<"x">>)>>,
    <<CreateOf(StrF, <<"x">>), DeleteOf(StrF)>>,
    <<DeleteOf(StrF), EditOf(StrF)>>,
    <<CreateOf(StrF, <<"x">>)>> }

SecondBatches ==
  { <<CreateOf(StrDF, <<"y">>), CreateOf(StrF, <<"y">>)>>,
    <<DeleteOf(StrF), CreateOf(StrF, <<"y">>)>>,
    <<EditOf(StrF)>>,
    <<DeleteOf(StrF)>> }

Batches == {1, 2}

OverlapInit ==
  /\ ParserIdle
  /\ command = "executeActions"
  /\ provider = "none"
  /\ workspaceFolders = <<WorkspaceRoot>>
  /\ disk \in Disks
  /\ script \in {<<b1, b2>> : b1 \in FirstBatches, b2 \in SecondBatches}
  /\ made = 0
  /\ log = <<>>
  /\ notices = <<>>
  /\ posted = <<>>
  /\ events = <<>>
  /\ IntentIdle

\* The events of batch b of the kind ev.
EventsOf(b, ev) ==
  {events[j].k : j \in {m \in DOMAIN events : events[m].batch = b /\ events[m].ev = ev}}

StartedOf(b) == EventsOf(b, "start")

EndedOf(b) == EventsOf(b, "end")

PostedOf(b) == EventsOf(b, "post") # {}

\* The batch whose handler runs in the current task, 0 when every handler
\* is suspended or has returned: a handler gives up the task when its
\* operation suspends and when it has posted its result.
Holder ==
  IF events = <<>> THEN 0
  ELSE LET e == events[Len(events)]
       IN IF e.ev = "post" \/ (e.ev = "start" /\ e.yields) THEN 0 ELSE e.batch

\* The operation of the action reaches await showTextDocument: the file
\* has been written by createFile (line 129) or by editFile (line 316).
Yields(fs, folders, action) ==
  /\ action.type \in {"CREATE_FILE", "EDIT_FILE"}
  /\ executeCodeAction(fs, folders, action, TRUE).ok

\* The file system now with the changes that lead from before to after.
Replayed(before, after, now) ==
  LET gone == DOMAIN before \ DOMAIN after
      put == {q \in DOMAIN after : q \notin DOMAIN before \/ before[q] # after[q]}
  IN [q \in (DOMAIN now \ gone) \cup put |-> IF q \in put THEN after[q] ELSE now[q]]

\* The file system as the handler of batch b saw it when it was last at
\* work.
SeenBy(b) ==
  LET own == {j \in DOMAIN log : log[j].batch = b}
  IN IF own # {} THEN log[Max(own)].after
     ELSE IF log # <<>> THEN log[1].before ELSE disk

\* Mutant of BatchBegin: the operation awaits between its existence test
\* and its mutation, so that the test is the one made when the handler was
\* last at work and the mutation is made now.
BatchBegin_AwaitsAfterTest(b) ==
  /\ command = "executeActions"
  /\ pc = "idle"
  /\ ~PostedOf(b)
  /\ StartedOf(b) = EndedOf(b)
  /\ Holder = b \/ (Holder = 0 /\ StartedOf(b) = {})
  /\ Cardinality(StartedOf(b)) < Len(script[b])
  /\ LET k == Cardinality(StartedOf(b)) + 1
         action == script[b][k]
     IN \E opens \in Openings(OperationOf[action.type]) :
          LET x == executeCodeAction(SeenBy(b), workspaceFolders, action, opens)
          IN /\ disk' = Replayed(SeenBy(b), x.fs, disk)
             /\ log' = Append(log, [batch |-> b, k |-> k, action |-> action,
                                    opens |-> opens, before |-> disk, after |-> Replayed(SeenBy(b), x.fs, disk),
                                    ok |-> x.ok])
             /\ events' = Append(events,
                                 [ev |-> "start", batch |-> b, k |-> k,
                                  yields |-> Yields(disk, workspaceFolders, action)])
  /\ UNCHANGED <<workspaceFolders, script, made>>
  /\ UNCHANGED parserVars
  /\ UNCHANGED <<command, provider, notices, posted>>
  /\ UNCHANGED intentVars

\* index.js, lines 1739-1741 (or 1683) with executeCodeAction: the handler
\* of batch b, when its turn has come, calls executeCodeAction for its
\* next action; the synchronous part of the operation, the existence test
\* and the mutation, runs at once.
BatchBegin(b) ==
  /\ command = "executeActions"
  /\ pc = "idle"
  /\ ~PostedOf(b)
  /\ StartedOf(b) = EndedOf(b)
  /\ Holder = b \/ (Holder = 0 /\ StartedOf(b) = {})
  /\ Cardinality(StartedOf(b)) < Len(script[b])
  /\ LET k == Cardinality(StartedOf(b)) + 1
         action == script[b][k]
     IN \E opens \in Openings(OperationOf[action.type]) :
          LET x == executeCodeAction(disk, workspaceFolders, action, opens)
          IN /\ disk' = x.fs
             /\ log' = Append(log, [batch |-> b, k |-> k, action |-> action,
                                    opens |-> opens, before |-> disk, after |-> x.fs,
                                    ok |-> x.ok])
             /\ events' = Append(events,
                                 [ev |-> "start", batch |-> b, k |-> k,
                                  yields |-> Yields(disk, workspaceFolders, action)])
  /\ UNCHANGED <<workspaceFolders, script, made>>
  /\ UNCHANGED parserVars
  /\ UNCHANGED <<command, provider, notices, posted>>
  /\ UNCHANGED intentVars

\* The call of executeCodeAction of batch b completes: at once when the
\* operation has not suspended, in a later task when it has.
BatchSettle(b) ==
  /\ command = "executeActions"
  /\ pc = "idle"
  /\ StartedOf(b) # EndedOf(b)
  /\ Holder \in {0, b}
  /\ events' = Append(events, [ev |-> "end", batch |-> b,
                               k |-> Cardinality(StartedOf(b)), yields |-> FALSE])
  /\ made' = made + 1
  /\ UNCHANGED <<workspaceFolders, disk, script, log>>
  /\ UNCHANGED parserVars
  /\ UNCHANGED <<command, provider, notices, posted>>
  /\ UNCHANGED intentVars

\* index.js, lines 1745-1749 (or 1684-1688): after its last action the
\* handler of batch b posts the success.
BatchPost(b) ==
  /\ command = "executeActions"
  /\ pc = "idle"
  /\ ~PostedOf(b)
  /\ Holder = b
  /\ Cardinality(EndedOf(b)) = Len(script[b])
  /\ posted' = Append(posted, ActionsExecuted(TRUE, Len(script[b]), ""))
  /\ events' = Append(events, [ev |-> "post", batch |-> b, k |-> 0, yields |-> FALSE])
  /\ UNCHANGED execVars
  /\ UNCHANGED parserVars
  /\ UNCHANGED <<command, provider, notices>>
  /\ UNCHANGED intentVars

OverlapNext == \E b \in Batches : BatchBegin(b) \/ BatchSettle(b) \/ BatchPost(b)

OverlapSpec == OverlapInit /\ [][OverlapNext]_vars


(***************************************************************************)
(* Vocabulary of the properties of overlapping batches.                    *)
(***************************************************************************)
\* The path in the file system that the action names.
FullPathOf(action) == PathJoin(WorkspaceRoot, PathSegments(action.path))

\* The operations, by their place in the log, that have written the file p.
WritesOf(p) ==
  {j \in DOMAIN log :
     /\ FullPathOf(log[j].action) = p
     /\ Yields(log[j].before, workspaceFolders, log[j].action)}

\* Operation m has removed p.
Removes(m, p) == p \in DOMAIN log[m].before /\ p \notin DOMAIN log[m].after

\* The files that both batches have written.
WrittenByBoth ==
  {p \in DOMAIN disk \cup UNION {DOMAIN log[j].after : j \in DOMAIN log} :
     \A b \in Batches : \E j \in WritesOf(p) : log[j].batch = b}

\* Both handlers have posted their result.
BothPosted == \A b \in Batches : PostedOf(b)

(***************************************************************************)
(* C33.  There is no mutual exclusion between batches: when two            *)
(* 'executeActions' (or 'executeAction') messages are handled in           *)
(* overlapping fashion, an action of the second batch can run between two  *)
(* actions of the first, and the final content of a path written by both   *)
(* batches depends on the interleaving: such a path holds what the write   *)
(* that ran last wrote (unless a later operation removed the file),        *)
(* whichever batch that write belongs to.                                  *)
(***************************************************************************)
C33_LastWriteWins ==
  command = "executeActions" /\ pc = "idle" =>
    \A p \in WrittenByBoth :
      LET j == Max(WritesOf(p))
      IN (\A m \in (j + 1)..Len(log) : ~Removes(m, p)) =>
           /\ p \in DOMAIN disk
           /\ disk[p] = File(FieldOr(log[j].action, "content", <<>>))

\* Both batches are done, the first wrote f then d/f, the second d/f then
\* f, and the second batch's write of d/f ran between the two writes of
\* the first: f holds what the second batch wrote and d/f what the first
\* wrote, which neither order of the whole batches produces.
C33_Witness ==
  /\ BothPosted
  /\ script = << <<CreateOf(StrF, <<"x">>), CreateOf(StrDF, <<"x">>)>>,
                 <<CreateOf(StrDF, <<"y">>), CreateOf(StrF, <<"y">>)>> >>
  /\ [j \in DOMAIN log |-> log[j].batch] = <<1, 2, 1, 2>>
  /\ \A j \in DOMAIN log : log[j].ok
  /\ disk[WorkspaceRoot \o <<"f">>] = File(<<"y">>)
  /\ disk[WorkspaceRoot \o <<"d", "f">>] = File(<<"x">>)


C35_FailureChangesNothing ==
  \A k \in DOMAIN log :
    ~log[k].ok => log[k].after = log[k].before


\* The EDIT_FILE actions among the actions run, by their place in the log.
EditsRun == {j \in DOMAIN log : log[j].action.type = "EDIT_FILE"}

(***************************************************************************)
(* C36.  An EDIT_FILE action returned by the parser never carries          *)
(* content, because content blocks bind only to CREATE_FILE actions, a     *)
(* block of the path of the EDIT_FILE action included; consequently        *)
(* executing any parsed EDIT_FILE action on an existing file through       *)
(* executeCodeAction, in an open workspace folder, replaces the content of  *)
(* that file by the empty string.                                          *)
(***************************************************************************)
C36_EditFileEmpties ==
  command = "executeActions" =>
    /\ \A k \in DOMAIN actions :
         actions[k].type = "EDIT_FILE" => "content" \notin DOMAIN actions[k]
    /\ \A k \in DOMAIN result :
         result[k].type = "EDIT_FILE" => "content" \notin DOMAIN result[k]
    /\ \A j \in EditsRun :
         workspaceFolders # <<>> /\ isFile(log[j].before, FullPathOf(log[j].action)) =>
           log[j].after[FullPathOf(log[j].action)] = File(<<>>)

\* The answer holds an EDIT_FILE marker of f with a content block of f:
\* the action has run on the file f, which held text, and f is empty.
C36_Witness ==
  /\ command = "executeActions"
  /\ pc = "posted"
  /\ result = <<[type |-> "EDIT_FILE", path |-> StrF, description |-> DescD]>>
  /\ \E k \in DOMAIN lines : lines[k] = OpenLine(StrF)
  /\ Len(log) = 1
  /\ workspaceFolders # <<>>
  /\ isFile(log[1].before, WorkspaceRoot \o <<"f">>)
  /\ log[1].before[WorkspaceRoot \o <<"f">>].content # <<>>
  /\ log[1].ok
  /\ disk[WorkspaceRoot \o <<"f">>] = File(<<>>)


(***************************************************************************)
(* C37.  The handlers report success to the webview only for applied       *)
(* actions: a message with success: true is posted for an action only if   *)
(* the executor operation of that action succeeded, and an                 *)
(* 'actionsExecuted' message with success: true and count n is posted      *)
(* only if all n actions of the batch were executed without error.         *)
(***************************************************************************)
C37_SuccessOnlyIfApplied ==
  command = "executeActions" =>
    \A m \in DOMAIN posted :
      posted[m].success =>
        /\ Len(log) = posted[m].count
        /\ \A j \in DOMAIN log : log[j].ok


(***************************************************************************)
(* The IntentManager (aiService.ts, lines 1177-1294).  An intent is a      *)
(* record with its id, its progress, whether it is completed and, once a   *)
(* file was added, its files; the description and the timestamp play no    *)
(* role in the operations.  currentIntent is a reference to an object of   *)
(* intentHistory, given by the id of the object (0 for null).              *)
(***************************************************************************)
\* The largest number of intents alive at a time.
MaxIntents == 3

\* Line 1199: only the last 10 intents are kept.
HistoryLimit == 10

IntentIds == 1..MaxIntents

\* The numbers passed as progress, and the paths passed as files.
Progresses == {0 - 5, 0, 50, 100, 150}

IntentFiles == {"f"}

MathMin(a, b) == IF a <= b THEN a ELSE b

MathMax(a, b) == IF a >= b THEN a ELSE b

\* this.intentHistory.find(i => i.id === intentId): the place of the first
\* intent with the id, 0 for undefined.
Find(history, intentId) ==
  LET found == {k \in DOMAIN history : history[k].id = intentId}
  IN IF found = {} THEN 0 ELSE Min(found)

\* The intent with the field set.
WithField(intent, field, value) ==
  [f \in DOMAIN intent \cup {field} |-> IF f = field THEN value ELSE intent[f]]

\* Lines 1274-1283: saveIntents puts the current intent and the history
\* into the global state.
Saved(current, history) == [currentIntent |-> current, intentHistory |-> history]

IntentInit ==
  /\ ParserIdle
  /\ ExecIdle
  /\ HandlerIdle
  /\ IntentIdle

\* Lines 1187-1205.  generateIntentId gives an id that no intent has.
setCurrentIntent ==
  /\ pc = "idle" /\ command = "none"
  /\ \E id \in IntentIds \ {intentHistory[k].id : k \in DOMAIN intentHistory} :
       LET intent == [id |-> id, progress |-> 0, completed |-> FALSE]
           unshifted == <<intent>> \o intentHistory
           kept == IF Len(unshifted) > HistoryLimit
                     THEN SubSeq(unshifted, 1, HistoryLimit) ELSE unshifted
       IN /\ currentIntent' = id
          /\ intentHistory' = kept
          /\ globalState' = Saved(id, kept)
  /\ UNCHANGED <<parserVars, execVars, handlerVars>>

\* Lines 1215-1224.
updateIntentProgress ==
  /\ pc = "idle" /\ command = "none"
  /\ \E intentId \in IntentIds, progress \in Progresses :
       LET k == Find(intentHistory, intentId)
           clamped == MathMin(100, MathMax(0, progress))
       IN IF k # 0
            THEN LET updated ==
                       WithField(WithField(intentHistory[k], "progress", clamped),
                                 "completed",
                                 IF clamped = 100 THEN TRUE
                                 ELSE intentHistory[k].completed)
                 IN /\ intentHistory' = [intentHistory EXCEPT ![k] = updated]
                    /\ globalState' = Saved(currentIntent, intentHistory')
            ELSE UNCHANGED <<intentHistory, globalState>>
  /\ UNCHANGED currentIntent
  /\ UNCHANGED <<parserVars, execVars, handlerVars>>

\* Lines 1226-1237.
addFileToIntent ==
  /\ pc = "idle" /\ command = "none"
  /\ \E intentId \in IntentIds, filePath \in IntentFiles :
       LET k == Find(intentHistory, intentId)
           files == IF k # 0 /\ "files" \in DOMAIN intentHistory[k]
                      THEN intentHistory[k].files ELSE <<>>
       IN IF k = 0 THEN UNCHANGED <<intentHistory, globalState>>
          ELSE IF \E m \in DOMAIN files : files[m] = filePath
            THEN /\ intentHistory' =
                      [intentHistory EXCEPT ![k] = WithField(intentHistory[k], "files", files)]
                 /\ UNCHANGED globalState
          ELSE /\ intentHistory' =
                    [intentHistory EXCEPT
                       ![k] = WithField(intentHistory[k], "files", Append(files, filePath))]
               /\ globalState' = Saved(currentIntent, intentHistory')
  /\ UNCHANGED currentIntent
  /\ UNCHANGED <<parserVars, execVars, handlerVars>>

\* Lines 1239-1246.
completeIntent ==
  /\ pc = "idle" /\ command = "none"
  /\ \E intentId \in IntentIds :
       LET k == Find(intentHistory, intentId)
       IN IF k # 0
            THEN /\ intentHistory' =
                      [intentHistory EXCEPT
                         ![k] = WithField(WithField(intentHistory[k], "completed", TRUE),
                                          "progress", 100)]
                 /\ globalState' = Saved(currentIntent, intentHistory')
            ELSE UNCHANGED <<intentHistory, globalState>>
  /\ UNCHANGED currentIntent
  /\ UNCHANGED <<parserVars, execVars, handlerVars>>

\* Lines 1248-1254.
deleteIntent ==
  /\ pc = "idle" /\ command = "none"
  /\ \E intentId \in IntentIds :
       /\ intentHistory' = SelectSeq(intentHistory, LAMBDA x : x.id # intentId)
       /\ currentIntent' = IF currentIntent = intentId THEN 0 ELSE currentIntent
       /\ globalState' = Saved(currentIntent', intentHistory')
  /\ UNCHANGED <<parserVars, execVars, handlerVars>>

IntentNext ==
  \/ setCurrentIntent
  \/ updateIntentProgress
  \/ addFileToIntent
  \/ completeIntent
  \/ deleteIntent

IntentSpec == IntentInit /\ [][IntentNext]_vars

(***************************************************************************)
(* C38.  For every intent of the IntentManager and after any sequence of   *)
(* setCurrentIntent, updateIntentProgress, completeIntent,                 *)
(* addFileToIntent and deleteIntent calls, the progress stays within       *)
(* 0..100 and an intent marked completed has progress 100.                 *)
(***************************************************************************)
C38_ProgressOfIntents ==
  \A k \in DOMAIN intentHistory :
    /\ intentHistory[k].progress \in 0..100
    /\ intentHistory[k].completed => intentHistory[k].progress = 100


\* The types of the interface CodeAction (aiService.ts, line 13), each
\* with a case in executeCodeAction.
DeclaredTypes == DOMAIN OperationOf

(***************************************************************************)
(* C39.  Every action in the actions list of a chat() response has a type  *)
(* that is one of the seven declared CodeAction types (CREATE_FILE,        *)
(* CREATE_DIRECTORY, DELETE_FILE, DELETE_DIRECTORY, MOVE_FILE, COPY_FILE,  *)
(* EDIT_FILE), so that executeCodeAction dispatches it to an executor      *)
(* operation and never to its 'Unknown action type' branch.                *)
(***************************************************************************)
C39_DeclaredTypesOnly ==
  command = "sendMessage" =>
    /\ \A k \in DOMAIN OfferedActions : OfferedActions[k].type \in DeclaredTypes
    /\ \A j \in DOMAIN log : log[j].op # "none"

====
